---- MODULE Spec2Model ----
(***************************************************************************)
(* EPG Refresh Scheduler plugin (src/epg_refresh_scheduler/plugin.py).     *)
(*                                                                         *)
(* The plugin reconciles per-source settings (enabled flag + cron string   *)
(* in the user's timezone) into django-celery-beat rows: CrontabSchedule   *)
(* rows and PeriodicTask rows named epg_refresh_scheduler_<kind>_<id>.     *)
(*                                                                         *)
(* Python strings that the code takes apart (cron expressions, string      *)
(* encodings of the enabled flag) are sequences of one-character strings;  *)
(* identifiers that the code only compares (timezone names, task paths)    *)
(* are TLA+ strings.  A settings dict is a function whose domain is the    *)
(* set of keys present; a key f"{kind}_{id}_enabled" is the tuple          *)
(* <<kind, id, "enabled">>.  A source's name is identified with its id.    *)
(***************************************************************************)
EXTENDS Integers, Sequences, FiniteSets, TLC

(***************************************************************************)
(* Bounds and input universes                                              *)
(***************************************************************************)
\* Number of M3U accounts and of EPG sources that may ever be in the catalog.
MaxM3U == 1
MaxEPG == 1

\* Their ids: M3U accounts 1, 2, ...; EPG sources 7, 8, ...
M3UIds == 1..MaxM3U
EPGIds == 7..(6 + MaxEPG)

Kinds == {"m3u", "epg"}
SourceKeys == ({"m3u"} \X M3UIds) \cup ({"epg"} \X EPGIds)

(***************************************************************************)
(* Python string helpers                                                   *)
(***************************************************************************)
Digits == {"0", "1", "2", "3", "4", "5", "6", "7", "8", "9"}

DigitVal(c) ==
    CASE c = "0" -> 0 [] c = "1" -> 1 [] c = "2" -> 2 [] c = "3" -> 3
      [] c = "4" -> 4 [] c = "5" -> 5 [] c = "6" -> 6 [] c = "7" -> 7
      [] c = "8" -> 8 [] c = "9" -> 9

DigitChar(n) ==
    CASE n = 0 -> "0" [] n = 1 -> "1" [] n = 2 -> "2" [] n = 3 -> "3"
      [] n = 4 -> "4" [] n = 5 -> "5" [] n = 6 -> "6" [] n = 7 -> "7"
      [] n = 8 -> "8" [] n = 9 -> "9"

\* str.isdigit(): non-empty and every character a digit
isdigit(s) == Len(s) > 0 /\ \A i \in 1..Len(s) : s[i] \in Digits

\* int(s) for a string of digits
RECURSIVE int(_)
int(s) == IF Len(s) = 0 THEN 0
          ELSE 10 * int(SubSeq(s, 1, Len(s) - 1)) + DigitVal(s[Len(s)])

\* str(n) for n >= 0
RECURSIVE str(_)
str(n) == IF n < 10 THEN <<DigitChar(n)>>
          ELSE Append(str(n \div 10), DigitChar(n % 10))

Whitespace == {" "}

RECURSIVE lstrip(_)
lstrip(s) == IF Len(s) > 0 /\ s[1] \in Whitespace THEN lstrip(Tail(s)) ELSE s

RECURSIVE rstrip(_)
rstrip(s) == IF Len(s) > 0 /\ s[Len(s)] \in Whitespace
             THEN rstrip(SubSeq(s, 1, Len(s) - 1)) ELSE s

\* str.strip()
strip(s) == rstrip(lstrip(s))

\* str.split(): the maximal runs of non-whitespace characters, in order
RECURSIVE SplitFrom(_, _, _)
SplitFrom(s, cur, acc) ==
    IF Len(s) = 0
    THEN IF cur = <<>> THEN acc ELSE Append(acc, cur)
    ELSE IF s[1] \in Whitespace
         THEN SplitFrom(Tail(s), <<>>, IF cur = <<>> THEN acc ELSE Append(acc, cur))
         ELSE SplitFrom(Tail(s), Append(cur, s[1]), acc)

split(s) == SplitFrom(s, <<>>, <<>>)

\* ' '.join(parts)
RECURSIVE join(_)
join(parts) ==
    IF Len(parts) = 0 THEN <<>>
    ELSE IF Len(parts) = 1 THEN parts[1]
    ELSE parts[1] \o <<" ">> \o join(Tail(parts))

\* str.startswith(prefix)
startswith(s, prefix) ==
    Len(s) >= Len(prefix) /\ SubSeq(s, 1, Len(prefix)) = prefix

LowerChar(c) ==
    CASE c = "A" -> "a" [] c = "B" -> "b" [] c = "C" -> "c" [] c = "D" -> "d"
      [] c = "E" -> "e" [] c = "F" -> "f" [] c = "G" -> "g" [] c = "H" -> "h"
      [] c = "I" -> "i" [] c = "J" -> "j" [] c = "K" -> "k" [] c = "L" -> "l"
      [] c = "M" -> "m" [] c = "N" -> "n" [] c = "O" -> "o" [] c = "P" -> "p"
      [] c = "Q" -> "q" [] c = "R" -> "r" [] c = "S" -> "s" [] c = "T" -> "t"
      [] c = "U" -> "u" [] c = "V" -> "v" [] c = "W" -> "w" [] c = "X" -> "x"
      [] c = "Y" -> "y" [] c = "Z" -> "z" [] OTHER -> c

\* str.lower()
lower(s) == [i \in 1..Len(s) |-> LowerChar(s[i])]

(***************************************************************************)
(* Cron validation and normalisation                                       *)
(***************************************************************************)
valid_chars == Digits \cup {"*", "/", "-", ","}

\* _validate_cron whose hour check lets 24 through
_validate_cron_hour_24(cron_expr) ==
    LET parts == split(strip(cron_expr)) IN
    IF Len(parts) # 5 THEN FALSE
    ELSE IF \E i \in 1..5 : \E j \in 1..Len(parts[i]) : parts[i][j] \notin valid_chars
         THEN FALSE
    ELSE IF isdigit(parts[1]) /\ ~(0 <= int(parts[1]) /\ int(parts[1]) <= 59) THEN FALSE
    ELSE IF isdigit(parts[2]) /\ ~(0 <= int(parts[2]) /\ int(parts[2]) <= 24) THEN FALSE
    ELSE IF isdigit(parts[3]) /\ ~(1 <= int(parts[3]) /\ int(parts[3]) <= 31) THEN FALSE
    ELSE IF isdigit(parts[4]) /\ ~(1 <= int(parts[4]) /\ int(parts[4]) <= 12) THEN FALSE
    ELSE IF isdigit(parts[5]) /\ ~(0 <= int(parts[5]) /\ int(parts[5]) <= 6) THEN FALSE
    ELSE TRUE

\* Plugin._validate_cron
_validate_cron(cron_expr) ==
    LET parts == split(strip(cron_expr)) IN
    IF Len(parts) # 5 THEN FALSE
    ELSE LET minute        == parts[1]
             hour          == parts[2]
             day_of_month  == parts[3]
             month_of_year == parts[4]
             day_of_week   == parts[5]
         IN  IF \E i \in 1..5 : \E j \in 1..Len(parts[i]) : parts[i][j] \notin valid_chars
             THEN FALSE
             ELSE IF isdigit(minute) /\ ~(0 <= int(minute) /\ int(minute) <= 59) THEN FALSE
             ELSE IF isdigit(hour) /\ ~(0 <= int(hour) /\ int(hour) <= 23) THEN FALSE
             ELSE IF isdigit(day_of_month)
                     /\ ~(1 <= int(day_of_month) /\ int(day_of_month) <= 31) THEN FALSE
             ELSE IF isdigit(month_of_year)
                     /\ ~(1 <= int(month_of_year) /\ int(month_of_year) <= 12) THEN FALSE
             ELSE IF isdigit(day_of_week)
                     /\ ~(0 <= int(day_of_week) /\ int(day_of_week) <= 6) THEN FALSE
             ELSE TRUE

\* _normalize_cron that returns what it is given
_normalize_cron_unchanged(cron_expr) == cron_expr

\* _normalize_cron that leaves its loop after the first field it rewrites
_normalize_cron_first_only(cron_expr) ==
    LET parts == split(strip(cron_expr)) IN
    IF Len(parts) # 5 THEN cron_expr
    ELSE LET hits == {i \in 1..5 : startswith(parts[i], <<"0", "/">>)}
         IN  join([i \in 1..5 |->
                     IF i \in hits /\ \A j \in hits : i <= j
                     THEN <<"*">> \o Tail(parts[i])
                     ELSE parts[i]])

\* Plugin._normalize_cron
_normalize_cron(cron_expr) ==
    LET parts == split(strip(cron_expr)) IN
    IF Len(parts) # 5 THEN cron_expr
    ELSE join([i \in 1..5 |->
                 IF startswith(parts[i], <<"0", "/">>)
                 THEN <<"*">> \o Tail(parts[i])
                 ELSE parts[i]])

(***************************************************************************)
(* The cron strings of the model                                           *)
(*                                                                         *)
(* The handlers meet only the strings the users type and what strip and    *)
(* _normalize_cron make of them.  TLC computes each table below once, so   *)
(* a handler that looks a string up gets what the operator computes for    *)
(* it without redoing the character-level work in every step.              *)
(***************************************************************************)
\* cron strings a user may type
CronBlank   == <<" ">>
CronValid   == <<"0", " ", "2", "2", " ", "*", " ", "*", " ", "*">>
CronInvalid == <<"9", "9", " ", "9", "9", " ", "*", " ", "*", " ", "*">>


\* composite expressions: "*/6 * * * *", "0 */6 * * *", "*/15 3 * * *"
CronEverySix   == <<"*", "/", "6", " ", "*", " ", "*", " ", "*", " ", "*">>
CronHourStep   == <<"0", " ", "*", "/", "6", " ", "*", " ", "*", " ", "*">>
CronMinuteStep == <<"*", "/", "1", "5", " ", "3", " ", "*", " ", "*", " ", "*">>

\* a literal time with minutes that stays within the day in UTC: "30 1 * * *"
CronHalfPast   == <<"3", "0", " ", "1", " ", "*", " ", "*", " ", "*">>

\* steps written from zero, "0/15 0/6 * * *", and a literal time on Mondays
\* that is on Tuesday in UTC for a user west of Greenwich, "0 22 * * 1"
CronZeroSteps  == <<"0", "/", "1", "5", " ", "0", "/", "6", " ", "*", " ", "*", " ", "*">>
CronMonday     == <<"0", " ", "2", "2", " ", "*", " ", "*", " ", "1">>

CronTyped == {<<>>, CronBlank, CronValid, CronInvalid,
              CronEverySix, CronHourStep, CronMinuteStep, CronHalfPast,
              CronZeroSteps, CronMonday}

CronStrings ==
    LET a == CronTyped \cup {strip(c) : c \in CronTyped}
        b == a \cup {_normalize_cron(c) : c \in a}
    IN  b \cup {strip(c) : c \in b}

StripTable     == [c \in CronStrings |-> strip(c)]
SplitTable     == [c \in CronStrings |-> split(c)]
ValidateTable  == [c \in CronStrings |-> _validate_cron(c)]
NormalizeTable == [c \in CronStrings |-> _normalize_cron(c)]

(***************************************************************************)
(* Python values and dicts                                                 *)
(***************************************************************************)
\* A settings value of an enabled key: a Python bool or a Python str.
PyBool(b) == [isStr |-> FALSE, b |-> b, s |-> <<>>]
PyStr(s) == [isStr |-> TRUE, b |-> FALSE, s |-> s]

\* Python truthiness of such a value (bool: itself; str: non-empty)
Truthy(v) == IF v.isStr THEN v.s # <<>> ELSE v.b

EmptyDict == [k \in {} |-> TRUE]

\* dict.get(key, default)
Get(d, key, default) == IF key \in DOMAIN d THEN d[key] ELSE default

\* an assignment that is lost
DictSet_ignored(d, key, value) == d

\* d[key] = value
DictSet(d, key, value) ==
    [k \in (DOMAIN d) \cup {key} |-> IF k = key THEN value ELSE d[k]]

\* del d[key]
DictDel(d, key) == [k \in (DOMAIN d) \ {key} |-> d[k]]

\* the values of a dict
DictValues(d) == {d[k] : k \in DOMAIN d}

TimezoneKey == <<"timezone">>
EnabledKey(kind, id) == <<kind, id, "enabled">>
ScheduleKey(kind, id) == <<kind, id, "schedule">>

\* the string encodings save_settings accepts as "enabled"
TruthyStrings == { <<"t", "r", "u", "e">>, <<"1">>, <<"y", "e", "s">>, <<"o", "n">> }

(***************************************************************************)
(* The persisted store (django-celery-beat)                                *)
(***************************************************************************)
\* f"epg_refresh_scheduler_{kind}_{id}"
TaskName(kind, id) == <<"epg_refresh_scheduler", kind, id>>

\* the rows of PeriodicTask the plugin owns: those with the plugin's prefix
Owned(rows) == {t \in rows : t.name[1] = "epg_refresh_scheduler"}

\* the rows of PeriodicTask with a given name
RowsNamed(rows, name) == {t \in rows : t.name = name}

\* A PeriodicTask row of the host that the plugin did not write.
ForeignTask ==
    [name        |-> <<"celery", "backend_cleanup", 0>>,
     crontab     |-> <<<<"0">>, <<"4">>, <<"*">>, <<"*">>, <<"*">>>>,
     task        |-> "celery.backend_cleanup",
     args        |-> <<"[", "]">>,
     enabled     |-> TRUE,
     description |-> [text |-> "", name |-> 0, tz |-> ""]]

\* Registry keys of self.scheduled_tasks: epg.id for an EPG source,
\* f"m3u_{id}" for an M3U account.
EpgRegKey(id) == <<id>>
M3uRegKey(id) == <<"m3u", id>>

(***************************************************************************)
(* Timezone conversion                                                     *)
(***************************************************************************)
\* the zones pytz knows, of those the model uses; pytz.timezone raises
\* UnknownTimeZoneError for any other name
KnownZones == {"UTC", "US/Eastern", "US/Central", "Asia/Kolkata"}

\* datetime.now(tz).utcoffset() in minutes, for a call made in standard time
\* (dst = FALSE) or in daylight-saving time (dst = TRUE); 0 stands in for a
\* zone pytz does not know, where no offset is ever computed
UtcOffset(tz, dst) ==
    CASE tz = "UTC"        -> 0
      [] tz = "US/Eastern" -> IF dst THEN -240 ELSE -300
      [] tz = "US/Central" -> IF dst THEN -300 ELSE -360
      [] tz = "Asia/Kolkata" -> 330
      [] OTHER             -> 0

\* the shift with the sign of the offset the wrong way round
LocalToUtcMinutes_added(hour, minute, utcoffset) ==
    (60 * hour + minute + utcoffset) % 1440

\* datetime.now(user_tz).replace(hour, minute).astimezone(utc): minutes
\* since midnight UTC
LocalToUtcMinutes(hour, minute, utcoffset) ==
    (60 * hour + minute - utcoffset) % 1440

\* the conversion that shifts a field as soon as it is a literal, whatever
\* the other field is
UtcFields_either_literal(parts, user_timezone, utcoffset) ==
    LET minute == parts[1]
        hour   == parts[2]
    IN  IF user_timezone # "UTC" /\ (isdigit(minute) \/ isdigit(hour))
           /\ user_timezone \in KnownZones
        THEN LET utc == LocalToUtcMinutes(IF isdigit(hour) THEN int(hour) ELSE 0,
                                          IF isdigit(minute) THEN int(minute) ELSE 0,
                                          utcoffset)
             IN  <<IF isdigit(minute) THEN str(utc % 60) ELSE minute,
                   IF isdigit(hour) THEN str(utc \div 60) ELSE hour,
                   parts[3], parts[4], parts[5]>>
        ELSE <<minute, hour, parts[3], parts[4], parts[5]>>

\* the conversion that falls back to the default timezone, US/Central in
\* standard time, when pytz does not know the name
UtcFields_unknown_as_default(parts, user_timezone, utcoffset) ==
    LET minute == parts[1]
        hour   == parts[2]
    IN  IF user_timezone # "UTC" /\ isdigit(minute) /\ isdigit(hour)
        THEN LET utc == LocalToUtcMinutes(int(hour), int(minute),
                          IF user_timezone \in KnownZones THEN utcoffset ELSE -360)
             IN  <<str(utc % 60), str(utc \div 60), parts[3], parts[4], parts[5]>>
        ELSE <<minute, hour, parts[3], parts[4], parts[5]>>

\* the conversion that moves the day of the week along with the time when
\* the UTC time falls on the next or the previous day
UtcFields_day_shifted(parts, user_timezone, utcoffset) ==
    LET minute == parts[1]
        hour   == parts[2]
    IN  IF user_timezone # "UTC" /\ isdigit(minute) /\ isdigit(hour)
           /\ user_timezone \in KnownZones
        THEN LET local == 60 * int(hour) + int(minute) - utcoffset
                 utc   == local % 1440
                 days  == IF local >= 1440 THEN 1 ELSE IF local < 0 THEN 6 ELSE 0
             IN  <<str(utc % 60), str(utc \div 60), parts[3], parts[4],
                   IF isdigit(parts[5]) THEN str((int(parts[5]) + days) % 7)
                   ELSE parts[5]>>
        ELSE <<minute, hour, parts[3], parts[4], parts[5]>>

\* The five fields of the CrontabSchedule row for a validated, normalised
\* expression: minute and hour shifted to UTC when both are digits and the
\* timezone is not UTC; the original fields when pytz raises.
UtcFields(parts, user_timezone, utcoffset) ==
    LET minute == parts[1]
        hour   == parts[2]
    IN  IF user_timezone # "UTC" /\ isdigit(minute) /\ isdigit(hour)
           /\ user_timezone \in KnownZones
        THEN LET utc == LocalToUtcMinutes(int(hour), int(minute), utcoffset)
             IN  <<str(utc % 60), str(utc \div 60), parts[3], parts[4], parts[5]>>
        ELSE <<minute, hour, parts[3], parts[4], parts[5]>>

\* Python's None
None == <<"None">>

\* str.lstrip('0')
RECURSIVE lstrip_zeros(_)
lstrip_zeros(s) == IF Len(s) > 0 /\ s[1] = "0" THEN lstrip_zeros(Tail(s)) ELSE s

\* strftime("%-I:%M %p") of a time given in minutes since midnight
strftime(minutes) ==
    LET hour   == minutes \div 60
        minute == minutes % 60
        I      == IF hour % 12 = 0 THEN 12 ELSE hour % 12
        M      == IF minute < 10 THEN <<"0">> \o str(minute) ELSE str(minute)
        p      == IF hour < 12 THEN <<"A", "M">> ELSE <<"P", "M">>
    IN  str(I) \o <<":">> \o M \o <<" ">> \o p

\* the shift back with the sign of the offset the wrong way round
UtcToLocalMinutes_subtracted(hour, minute, utcoffset) ==
    (60 * hour + minute - utcoffset) % 1440

\* datetime.now(utc).replace(hour, minute).astimezone(user_tz): minutes
\* since midnight in the user's timezone
UtcToLocalMinutes(hour, minute, utcoffset) ==
    (60 * hour + minute + utcoffset) % 1440

\* Plugin._convert_utc_to_local; utcoffset is the offset of the timezone at
\* the UTC time converted.  None when the fields are not literals, for UTC,
\* and when pytz.timezone or datetime.replace raises.
_convert_utc_to_local(minute, hour, user_timezone, utcoffset) ==
    IF ~(isdigit(minute) /\ isdigit(hour)) THEN None
    ELSE IF user_timezone = "UTC" THEN None
    ELSE IF user_timezone \notin KnownZones THEN None
    ELSE IF int(hour) > 23 \/ int(minute) > 59 THEN None
    ELSE lstrip_zeros(strftime(UtcToLocalMinutes(int(hour), int(minute), utcoffset)))

\* json.dumps that writes every list as the empty list
json_dumps_empty(list) == <<"[", "]">>

\* json.dumps(list) for a list of integers: the text "[e1, e2, ...]"
RECURSIVE json_dumps_items(_)
json_dumps_items(list) ==
    IF list = <<>> THEN <<>>
    ELSE IF Len(list) = 1 THEN str(list[1])
    ELSE str(list[1]) \o <<",", " ">> \o json_dumps_items(Tail(list))

json_dumps(list) == <<"[">> \o json_dumps_items(list) \o <<"]">>

(***************************************************************************)
(* Upsert and delete of one descriptor                                     *)
(*                                                                         *)
(* S is the plugin's view of the world during one call:                    *)
(*   tasks           the PeriodicTask rows                                 *)
(*   crontabs        the CrontabSchedule rows                              *)
(*   scheduled_tasks self.scheduled_tasks                                  *)
(*   created         the keys whose upsert logged "Created"                *)
(*   deleted         the keys whose delete logged "Deleted"                *)
(* store_error says that the store raises during this operation.           *)
(***************************************************************************)
\* update_or_create that inserts a row without looking for the one of the
\* same name
update_or_create_inserting(rows, row) == rows \cup {row}

\* PeriodicTask.objects.update_or_create(name=..., defaults=...): the rows
\* after the call.  (More than one row of that name raises
\* MultipleObjectsReturned, which store_error covers.)
update_or_create(rows, row) == (rows \ RowsNamed(rows, row.name)) \cup {row}

\* update_or_create that reports every row as created
update_or_create_always_created(rows, row) == TRUE

\* the created flag that update_or_create returns
update_or_create_created(rows, row) == RowsNamed(rows, row.name) = {}

\* Plugin._create_or_update_epg_schedule
_create_or_update_epg_schedule(S, epg, cron_expr, user_timezone, utcoffset, store_error) ==
    IF ~ValidateTable[cron_expr] THEN S
    ELSE
    LET parts == SplitTable[StripTable[NormalizeTable[cron_expr]]] IN
    IF Len(parts) # 5 THEN S
    ELSE
    LET schedule  == UtcFields(parts, user_timezone, utcoffset)
        task_name == TaskName("epg", epg)
        row == [name        |-> task_name,
                crontab     |-> schedule,
                task        |-> "apps.epg.tasks.refresh_all_epg_data",
                args        |-> json_dumps(<<>>),
                enabled     |-> TRUE,
                description |-> [text |-> "Refresh triggered by",
                                 name |-> epg, tz |-> user_timezone]]
    IN  IF store_error \/ Cardinality(RowsNamed(S.tasks, task_name)) > 1
        THEN S    \* the exception rolls the transaction back and is logged
        ELSE [S EXCEPT
                !.crontabs = @ \cup {schedule},
                !.tasks = update_or_create(@, row),
                !.created = IF update_or_create_created(S.tasks, row)
                            THEN @ \cup {<<"epg", epg>>} ELSE @,
                !.scheduled_tasks = DictSet(@, EpgRegKey(epg), task_name)]

\* Plugin._create_or_update_m3u_schedule
_create_or_update_m3u_schedule(S, m3u, cron_expr, user_timezone, utcoffset, store_error) ==
    IF ~ValidateTable[cron_expr] THEN S
    ELSE
    LET parts == SplitTable[StripTable[NormalizeTable[cron_expr]]] IN
    IF Len(parts) # 5 THEN S
    ELSE
    LET schedule  == UtcFields(parts, user_timezone, utcoffset)
        task_name == TaskName("m3u", m3u)
        row == [name        |-> task_name,
                crontab     |-> schedule,
                task        |-> "apps.m3u.tasks.refresh_single_m3u_account",
                args        |-> json_dumps(<<m3u>>),
                enabled     |-> TRUE,
                description |-> [text |-> "M3U refresh triggered by scheduler",
                                 name |-> m3u, tz |-> user_timezone]]
    IN  IF store_error \/ Cardinality(RowsNamed(S.tasks, task_name)) > 1
        THEN S
        ELSE [S EXCEPT
                !.crontabs = @ \cup {schedule},
                !.tasks = update_or_create(@, row),
                !.created = IF update_or_create_created(S.tasks, row)
                            THEN @ \cup {<<"m3u", m3u>>} ELSE @,
                !.scheduled_tasks = DictSet(@, M3uRegKey(m3u), task_name)]

\* _delete_epg_schedule whose filter matches every task of the plugin
_delete_epg_schedule_every_task(S, epg_id, store_error) ==
    IF store_error THEN S
    ELSE [S EXCEPT
            !.tasks = @ \ Owned(S.tasks),
            !.deleted = @ \cup {<<"epg", epg_id>>},
            !.scheduled_tasks = IF EpgRegKey(epg_id) \in DOMAIN @
                                THEN DictDel(@, EpgRegKey(epg_id)) ELSE @]

\* _delete_epg_schedule that deletes the crontab rows of the tasks it deletes
_delete_epg_schedule_with_crontab(S, epg_id, store_error) ==
    LET rows == RowsNamed(S.tasks, TaskName("epg", epg_id))
    IN  IF store_error \/ rows = {} THEN S
        ELSE [S EXCEPT
                !.tasks = @ \ rows,
                !.crontabs = @ \ {t.crontab : t \in rows},
                !.deleted = @ \cup {<<"epg", epg_id>>},
                !.scheduled_tasks = IF EpgRegKey(epg_id) \in DOMAIN @
                                    THEN DictDel(@, EpgRegKey(epg_id)) ELSE @]

\* Plugin._delete_epg_schedule
_delete_epg_schedule(S, epg_id, store_error) ==
    LET task_name == TaskName("epg", epg_id)
        deleted   == Cardinality(RowsNamed(S.tasks, task_name))
    IN  IF store_error THEN S
        ELSE IF deleted > 0
        THEN [S EXCEPT
                !.tasks = @ \ RowsNamed(S.tasks, task_name),
                !.deleted = @ \cup {<<"epg", epg_id>>},
                !.scheduled_tasks = IF EpgRegKey(epg_id) \in DOMAIN @
                                    THEN DictDel(@, EpgRegKey(epg_id)) ELSE @]
        ELSE S

\* _delete_m3u_schedule that deletes nothing
_delete_m3u_schedule_nothing(S, m3u_id, store_error) == S

\* Plugin._delete_m3u_schedule
_delete_m3u_schedule(S, m3u_id, store_error) ==
    LET task_name == TaskName("m3u", m3u_id)
        deleted   == Cardinality(RowsNamed(S.tasks, task_name))
    IN  IF store_error THEN S
        ELSE IF deleted > 0
        THEN [S EXCEPT
                !.tasks = @ \ RowsNamed(S.tasks, task_name),
                !.deleted = @ \cup {<<"m3u", m3u_id>>},
                !.scheduled_tasks = IF M3uRegKey(m3u_id) \in DOMAIN @
                                    THEN DictDel(@, M3uRegKey(m3u_id)) ELSE @]
        ELSE S

\* dispatch on the kind of source
CreateOrUpdate(S, kind, id, cron_expr, user_timezone, utcoffset, store_error) ==
    IF kind = "m3u"
    THEN _create_or_update_m3u_schedule(S, id, cron_expr, user_timezone, utcoffset, store_error)
    ELSE _create_or_update_epg_schedule(S, id, cron_expr, user_timezone, utcoffset, store_error)

DeleteSchedule(S, kind, id, store_error) ==
    IF kind = "m3u" THEN _delete_m3u_schedule(S, id, store_error)
    ELSE _delete_epg_schedule(S, id, store_error)

(***************************************************************************)
(* Source catalog provider                                                 *)
(***************************************************************************)
\* _get_m3u_accounts that answers with the accounts although the query raised
_get_m3u_accounts_stale(accounts, raises) == accounts

\* Plugin._get_m3u_accounts / Plugin._get_epg_sources: the active sources in
\* the provider's order, or [] when the provider raises.
_get_m3u_accounts(accounts, raises) == IF raises THEN <<>> ELSE accounts
_get_epg_sources(sources, raises) == IF raises THEN <<>> ELSE sources

\* the (kind, id) keys of the sources a call read
KeysOf(m3u_accounts, epg_sources) ==
    {<<"m3u", m3u_accounts[i]>> : i \in 1..Len(m3u_accounts)}
      \cup {<<"epg", epg_sources[i]>> : i \in 1..Len(epg_sources)}

(***************************************************************************)
(* The handlers                                                            *)
(*                                                                         *)
(* A handler's accumulator:                                                *)
(*   S        the world (see above)                                        *)
(*   synced   per kind, the names appended to <kind>_synced                *)
(*   removed  per kind, the names appended to <kind>_removed               *)
(*   error    <<>> or <<kind, name, cron>> of the "Invalid cron" return    *)
(*   count    deleted_count of _cleanup_all_schedules                      *)
(* failing is the set of (kind, id) keys on which the store raises.        *)
(***************************************************************************)
NoError == <<>>

NewAcc(S) ==
    [S       |-> S,
     synced  |-> [m3u |-> <<>>, epg |-> <<>>],
     removed |-> [m3u |-> <<>>, epg |-> <<>>],
     error   |-> NoError,
     count   |-> 0]

\* One of the two loops of save_settings, over the sources of one kind.
RECURSIVE SaveSources(_, _, _, _, _, _)
SaveSources(acc, kind, sources, settings, utcoffset, failing) ==
    IF sources = <<>> \/ acc.error # NoError THEN acc
    ELSE
    LET id            == Head(sources)
        user_timezone == Get(settings, TimezoneKey, "US/Central")
        raw           == Get(settings, EnabledKey(kind, id), PyBool(FALSE))
        is_enabled    == IF raw.isStr THEN lower(raw.s) \in TruthyStrings ELSE raw.b
        cron_schedule == StripTable[Get(settings, ScheduleKey(kind, id), <<>>)]
        store_error   == <<kind, id>> \in failing
    IN  IF is_enabled /\ cron_schedule # <<>>
        THEN IF ~ValidateTable[cron_schedule]
             THEN [acc EXCEPT !.error = <<kind, id, cron_schedule>>]
             ELSE SaveSources(
                    [acc EXCEPT
                       !.S = CreateOrUpdate(@, kind, id, cron_schedule,
                                            user_timezone, utcoffset, store_error),
                       !.synced[kind] = Append(@, id)],
                    kind, Tail(sources), settings, utcoffset, failing)
        ELSE SaveSources(
               [acc EXCEPT
                  !.S = DeleteSchedule(@, kind, id, store_error),
                  !.removed[kind] = IF ~is_enabled THEN Append(@, id) ELSE @],
               kind, Tail(sources), settings, utcoffset, failing)

\* save_settings that goes on to the EPG sources after an invalid M3U cron
save_settings_both_loops(S, settings, m3u_accounts, epg_sources, utcoffset, failing) ==
    LET a == SaveSources(NewAcc(S), "m3u", m3u_accounts, settings, utcoffset, failing)
        b == SaveSources([a EXCEPT !.error = NoError], "epg", epg_sources,
                         settings, utcoffset, failing)
    IN  IF a.error # NoError THEN [b EXCEPT !.error = a.error] ELSE b

\* Plugin.save_settings: all M3U accounts, then all EPG sources.
save_settings(S, settings, m3u_accounts, epg_sources, utcoffset, failing) ==
    SaveSources(
        SaveSources(NewAcc(S), "m3u", m3u_accounts, settings, utcoffset, failing),
        "epg", epg_sources, settings, utcoffset, failing)

\* One of the two loops of _sync_schedules.
RECURSIVE SyncSources(_, _, _, _, _, _)
SyncSources(acc, kind, sources, settings, utcoffset, failing) ==
    IF sources = <<>> THEN acc
    ELSE
    LET id            == Head(sources)
        user_timezone == Get(settings, TimezoneKey, "US/Central")
        enabled       == Truthy(Get(settings, EnabledKey(kind, id), PyBool(FALSE)))
        schedule      == StripTable[Get(settings, ScheduleKey(kind, id), <<>>)]
        store_error   == <<kind, id>> \in failing
    IN  IF enabled /\ schedule # <<>>
        THEN IF ValidateTable[schedule]
             THEN SyncSources(
                    [acc EXCEPT
                       !.S = CreateOrUpdate(@, kind, id, schedule,
                                            user_timezone, utcoffset, store_error),
                       !.synced[kind] = Append(@, id)],
                    kind, Tail(sources), settings, utcoffset, failing)
             ELSE SyncSources(acc, kind, Tail(sources), settings, utcoffset, failing)
        ELSE SyncSources(
               [acc EXCEPT
                  !.S = DeleteSchedule(@, kind, id, store_error),
                  !.removed[kind] = Append(@, id)],
               kind, Tail(sources), settings, utcoffset, failing)

\* The settings _sync_schedules works with: the ones passed in, or the saved
\* ones when the ones passed in are empty.
SyncSettings(settings, saved) == IF settings = EmptyDict THEN saved ELSE settings

\* _sync_schedules that stops at an invalid cron as save_settings does
_sync_schedules_halting(S, settings, m3u_accounts, epg_sources, utcoffset, failing) ==
    SaveSources(
        SaveSources(NewAcc(S), "m3u", m3u_accounts, settings, utcoffset, failing),
        "epg", epg_sources, settings, utcoffset, failing)

\* Plugin._sync_schedules, from the point where the settings are non-empty.
_sync_schedules(S, settings, m3u_accounts, epg_sources, utcoffset, failing) ==
    SyncSources(
        SyncSources(NewAcc(S), "m3u", m3u_accounts, settings, utcoffset, failing),
        "epg", epg_sources, settings, utcoffset, failing)

\* One of the two loops of _setup_schedules.
RECURSIVE SetupSources(_, _, _, _, _, _)
SetupSources(acc, kind, sources, settings, utcoffset, failing) ==
    IF sources = <<>> THEN acc
    ELSE
    LET id            == Head(sources)
        user_timezone == Get(settings, TimezoneKey, "US/Central")
        enabled       == Truthy(Get(settings, EnabledKey(kind, id), PyBool(FALSE)))
        schedule      == Get(settings, ScheduleKey(kind, id), <<>>)
        store_error   == <<kind, id>> \in failing
    IN  IF enabled /\ schedule # <<>>
        THEN SetupSources(
               [acc EXCEPT
                  !.S = CreateOrUpdate(@, kind, id, schedule,
                                       user_timezone, utcoffset, store_error)],
               kind, Tail(sources), settings, utcoffset, failing)
        ELSE SetupSources(acc, kind, Tail(sources), settings, utcoffset, failing)

\* Plugin._setup_schedules, after the celery_app check.
_setup_schedules(S, settings, m3u_accounts, epg_sources, utcoffset, failing) ==
    SetupSources(
        SetupSources(NewAcc(S), "m3u", m3u_accounts, settings, utcoffset, failing),
        "epg", epg_sources, settings, utcoffset, failing)

\* One of the two loops of _cleanup_all_schedules; a store error ends the
\* handler with the deletions made so far.
RECURSIVE CleanupSources(_, _, _, _)
CleanupSources(acc, kind, sources, failing) ==
    IF sources = <<>> \/ acc.error # NoError THEN acc
    ELSE
    LET id        == Head(sources)
        task_name == TaskName(kind, id)
        count     == Cardinality(RowsNamed(acc.S.tasks, task_name))
    IN  IF <<kind, id>> \in failing
        THEN [acc EXCEPT !.error = <<kind, id, <<>>>>]
        ELSE CleanupSources(
               IF count > 0
               THEN [acc EXCEPT
                       !.S.tasks = @ \ RowsNamed(acc.S.tasks, task_name),
                       !.S.deleted = @ \cup {<<kind, id>>},
                       !.count = @ + count,
                       !.removed[kind] = Append(@, id)]
               ELSE acc,
               kind, Tail(sources), failing)

\* Plugin._cleanup_all_schedules
_cleanup_all_schedules(S, m3u_accounts, epg_sources, failing) ==
    CleanupSources(
        CleanupSources(NewAcc(S), "m3u", m3u_accounts, failing),
        "epg", epg_sources, failing)

\* Plugin._cleanup_schedules: delete the rows named in the registry and clear
\* it.  When the store raises on one of the names, the rows of the names
\* visited before it (done) are gone and the registry is not cleared.
_cleanup_schedules(S, failing, done) ==
    IF failing = {}
    THEN [S EXCEPT
            !.tasks = {t \in @ : t.name \notin DictValues(S.scheduled_tasks)},
            !.scheduled_tasks = EmptyDict]
    ELSE [S EXCEPT
            !.tasks = {t \in @ : t.name \notin {S.scheduled_tasks[k] : k \in done}}]

\* The refresh_interval of a source row of the host: an integer, NULL, or
\* no such attribute on the model class.
Interval(n)  == [attr |-> TRUE, null |-> FALSE, n |-> n]
NullInterval == [attr |-> TRUE, null |-> TRUE, n |-> 0]
NoInterval   == [attr |-> FALSE, null |-> FALSE, n |-> 0]

IntervalValues == {Interval(0), Interval(24), NullInterval, NoInterval}

\* the intervals as the host ships them: every source refreshes daily
HostIntervals == [k \in SourceKeys |-> Interval(24)]

\* the test that takes every source that has the attribute
needs_disabling_always(v) == v.attr

\* hasattr(source, 'refresh_interval') and source.refresh_interval != 0
needs_disabling(v) == v.attr /\ (v.null \/ v.n # 0)

\* One of the two loops of _disable_refresh_intervals.  The accumulator
\* holds the intervals, the sources updated and the source on which save()
\* raised.
RECURSIVE DisableSources(_, _, _, _)
DisableSources(acc, kind, sources, failing) ==
    IF sources = <<>> \/ acc.error # NoError THEN acc
    ELSE
    LET id == Head(sources)
        k  == <<kind, id>>
    IN  IF needs_disabling(acc.intervals[k])
        THEN IF k \in failing
             THEN [acc EXCEPT !.error = k]
             ELSE DisableSources(
                    [acc EXCEPT !.intervals[k] = Interval(0),
                                !.updated[kind] = Append(@, id)],
                    kind, Tail(sources), failing)
        ELSE DisableSources(acc, kind, Tail(sources), failing)

\* Plugin._disable_refresh_intervals: all M3U accounts, then all EPG sources
_disable_refresh_intervals(intervals, m3u_accounts, epg_sources, failing) ==
    DisableSources(
        DisableSources([intervals |-> intervals,
                        updated   |-> [m3u |-> <<>>, epg |-> <<>>],
                        error     |-> NoError],
                       "m3u", m3u_accounts, failing),
        "epg", epg_sources, failing)

\* the filter without the enabled condition
filter_name_enabled_any(rows, task_name) == RowsNamed(rows, task_name)

\* PeriodicTask.objects.filter(name=task_name, enabled=True)
filter_name_enabled(rows, task_name) ==
    {t \in RowsNamed(rows, task_name) : t.enabled}

\* One of the two loops of _view_schedules: the lines of the sources of one
\* kind.  A line holds the source, the stored cron expression and the local
\* time (None when the line is shown without it).
RECURSIVE ViewSources(_, _, _, _, _)
ViewSources(rows, kind, sources, user_timezone, utcoffset) ==
    IF sources = <<>> THEN <<>>
    ELSE
    LET id        == Head(sources)
        task_name == TaskName(kind, id)
        found     == filter_name_enabled(rows, task_name)
        rest      == ViewSources(rows, kind, Tail(sources), user_timezone, utcoffset)
    IN  IF found = {} THEN rest
        ELSE
        LET task       == CHOOSE t \in found : TRUE    \* .first()
            cron       == task.crontab
            cron_expr  == join(cron)
            local_time == _convert_utc_to_local(cron[1], cron[2], user_timezone,
                                                utcoffset)
        IN  <<[name |-> id, cron_expr |-> cron_expr, local_time |-> local_time]>>
              \o rest

\* Plugin._view_schedules: what it returns; saved is the settings dict of the
\* PluginSetting row (empty when there is none).
_view_schedules(rows, saved, m3u_accounts, epg_sources, utcoffset) ==
    LET user_timezone == Get(saved, TimezoneKey, "US/Central") IN
    [success       |-> TRUE,
     m3u_schedules |-> ViewSources(rows, "m3u", m3u_accounts, user_timezone, utcoffset),
     epg_schedules |-> ViewSources(rows, "epg", epg_sources, user_timezone, utcoffset)]

(***************************************************************************)
(* Inputs                                                                  *)
(***************************************************************************)
\* sequences without repetition over a set
DistinctSeqs(T) ==
    {q \in UNION {[1..n -> T] : n \in 0..Cardinality(T)} :
        \A i, j \in 1..Len(q) : i # j => q[i] # q[j]}

\* What the catalog provider may hold at the time of a call: the M3U
\* accounts in name order and the EPG sources in the provider's order.
Catalogs == DistinctSeqs(M3UIds) \X DistinctSeqs(EPGIds)

\* what a user may configure for one source: (enabled, schedule)
SourceInputs ==
    { <<PyBool(FALSE), CronValid>>,
      <<PyBool(TRUE), CronBlank>>,
      <<PyBool(TRUE), CronValid>>,
      <<PyBool(TRUE), CronInvalid>> }

\* the settings dict with a timezone and, for every key of DOMAIN cfg, an
\* enabled flag and a schedule
SettingsDict(tz, cfg) ==
    [k \in {TimezoneKey}
            \cup {EnabledKey(x[1], x[2]) : x \in DOMAIN cfg}
            \cup {ScheduleKey(x[1], x[2]) : x \in DOMAIN cfg} |->
        IF k = TimezoneKey THEN tz
        ELSE IF k[3] = "enabled" THEN cfg[<<k[1], k[2]>>][1]
        ELSE cfg[<<k[1], k[2]>>][2]]

\* What one reconcile call is given: the catalog, the settings, and the UTC
\* offset that the settings' timezone has when the call is made.
InputsOver(timezones, seasons) ==
    UNION { { [m3u |-> c[1], epg |-> c[2],
               settings |-> SettingsDict(tz, cfg),
               utcoffset |-> UtcOffset(tz, dst)] :
                 tz \in timezones, dst \in seasons,
                 cfg \in [KeysOf(c[1], c[2]) -> SourceInputs] } :
            c \in Catalogs }

\* The plain profile: the user is in UTC or US/Eastern, the calls are made in
\* standard time, the store and the catalog providers do not raise.
PlainInputs == InputsOver({"UTC", "US/Eastern"}, {FALSE})

\* The inputs over given catalogs, given (timezone, season) pairs and given
\* (enabled, schedule) choices per source.
InputsWith(catalogs, zones, choices) ==
    UNION { { [m3u |-> c[1], epg |-> c[2],
               settings |-> SettingsDict(z[1], cfg),
               utcoffset |-> UtcOffset(z[1], z[2])] :
                 z \in zones, cfg \in [KeysOf(c[1], c[2]) -> choices] } :
            c \in catalogs }

\* string values that a form or an API client may store for an enabled key
EnabledStrings ==
    { <<"t", "r", "u", "e">>, <<"1">>, <<"Y", "e", "s">>, <<"O", "N">>,
      <<"f", "a", "l", "s", "e">>, <<"0">>, <<"n", "o">>, <<"O", "f", "f">> }

\* The zone profiles: every source is enabled and the user stays in one
\* timezone and season: in UTC, in US/Eastern in standard or in
\* daylight-saving time, or under a timezone name that pytz does not know.
\* One source at a time with any of the profile's schedules, or all sources
\* with the literal time "0 22 * * *".
ZoneProfiles == {"zone-utc", "zone-eastern", "zone-eastern-dst", "zone-unknown"}

ProfileZone(p) ==
    CASE p = "zone-utc"         -> <<"UTC", FALSE>>
      [] p = "zone-eastern"     -> <<"US/Eastern", FALSE>>
      [] p = "zone-eastern-dst" -> <<"US/Eastern", TRUE>>
      [] p = "zone-unknown"     -> <<"Mars/Olympus", FALSE>>

\* the schedules of each profile: literal times and composite expressions
ZoneCrons(p) ==
    CASE p = "zone-utc"         -> {CronValid, CronMinuteStep}
      [] p = "zone-eastern"     -> {CronValid, CronHalfPast, CronEverySix,
                                    CronHourStep, CronMinuteStep}
      [] p = "zone-eastern-dst" -> {CronValid, CronHalfPast}
      [] p = "zone-unknown"     -> {CronValid}

ZoneInputs ==
    [p \in ZoneProfiles |->
        InputsWith({c \in Catalogs : Len(c[1]) + Len(c[2]) = 1}, {ProfileZone(p)},
                   {<<PyBool(TRUE), cron>> : cron \in ZoneCrons(p)})
          \cup InputsWith({c \in Catalogs : Len(c[1]) + Len(c[2]) > 1}, {ProfileZone(p)},
                          {<<PyBool(TRUE), CronValid>>})]

\* The faults profile: the catalog providers and the store may raise; the
\* user is in UTC, every schedule is valid, a source is enabled or not.
FaultInputs ==
    InputsWith(Catalogs, {<<"UTC", FALSE>>},
               {<<PyBool(FALSE), CronValid>>, <<PyBool(TRUE), CronValid>>})

\* The strings profile: every enabled flag is a string, every schedule is
\* valid, the user is in UTC.  One source at a time with any of the strings,
\* or several sources (or none) with "Yes" or "Off".
StringInputs ==
    InputsWith({c \in Catalogs : Len(c[1]) + Len(c[2]) = 1}, {<<"UTC", FALSE>>},
               {<<PyStr(e), CronValid>> : e \in EnabledStrings})
      \cup InputsWith({c \in Catalogs : Len(c[1]) + Len(c[2]) # 1}, {<<"UTC", FALSE>>},
                      {<<PyStr(<<"Y", "e", "s">>), CronValid>>,
                       <<PyStr(<<"O", "f", "f">>), CronValid>>})

\* The canon profiles: every source is enabled and the user stays in UTC or
\* in US/Eastern (standard time).  One source at a time with a literal time,
\* with steps written from zero or with a time on Mondays, or all sources
\* with the time on Mondays.
CanonProfiles == {"canon-utc", "canon-eastern"}

CanonZone(p) == IF p = "canon-utc" THEN <<"UTC", FALSE>> ELSE <<"US/Eastern", FALSE>>

CanonInputs ==
    [p \in CanonProfiles |->
        InputsWith({c \in Catalogs : Len(c[1]) + Len(c[2]) = 1}, {CanonZone(p)},
                   {<<PyBool(TRUE), cron>> :
                       cron \in {CronValid, CronZeroSteps, CronMonday}})
          \cup InputsWith({c \in Catalogs : Len(c[1]) + Len(c[2]) > 1}, {CanonZone(p)},
                          {<<PyBool(TRUE), CronMonday>>})]

\* The instance profile: the user is in US/Eastern, a source is disabled or
\* enabled with a valid or an invalid schedule.
InstanceInputs ==
    InputsWith(Catalogs, {<<"US/Eastern", FALSE>>},
               {<<PyBool(FALSE), CronValid>>, <<PyBool(TRUE), CronValid>>,
                <<PyBool(TRUE), CronInvalid>>})

\* The intervals profile: the user is in UTC and every source is enabled
\* with a valid schedule.
IntervalInputs ==
    InputsWith(Catalogs, {<<"UTC", FALSE>>}, {<<PyBool(TRUE), CronValid>>})

\* The view profile: the user is in US/Eastern, every schedule is valid, a
\* source is enabled or not.
ViewInputs ==
    InputsWith(Catalogs, {<<"US/Eastern", FALSE>>},
               {<<PyBool(FALSE), CronValid>>, <<PyBool(TRUE), CronValid>>})

\* what the PluginSetting row may hold when view_schedules reads it: nothing,
\* or settings with a timezone
ViewSaved == {EmptyDict} \cup {SettingsDict(tz, EmptyDict) : tz \in {"UTC", "US/Eastern"}}

(***************************************************************************)
(* State                                                                   *)
(*                                                                         *)
(* self.celery_app is written by on_load and read only by the              *)
(* _setup_schedules call that on_load makes next; it is the celery_app of  *)
(* on_load's context and no variable.                                      *)
(***************************************************************************)
VARIABLES
    tasks,            \* the PeriodicTask table
    crontabs,         \* the CrontabSchedule table
    scheduled_tasks,  \* self.scheduled_tasks
    profile,          \* what the environment gives the calls (never changes)
    call,             \* the last call of the plugin and what it was given
    result,           \* what that call returned and logged
    refresh_interval  \* the refresh_interval of every source row of the host

vars == <<tasks, crontabs, scheduled_tasks, profile, call, result, refresh_interval>>

World == [tasks |-> tasks, crontabs |-> crontabs,
          scheduled_tasks |-> scheduled_tasks, created |-> {}, deleted |-> {}]

Call(op, m3u_accounts, epg_sources, raised, settings, utcoffset, failing) ==
    [op |-> op, m3u |-> m3u_accounts, epg |-> epg_sources, raised |-> raised,
     settings |-> settings, utcoffset |-> utcoffset, failing |-> failing]

\* success is TRUE for the handlers that return nothing
Result(success, acc) ==
    [success |-> success, error |-> acc.error,
     synced |-> acc.synced, removed |-> acc.removed,
     created |-> acc.S.created, deleted |-> acc.S.deleted, count |-> acc.count]

Commit(S) ==
    /\ tasks' = S.tasks
    /\ crontabs' = S.crontabs
    /\ scheduled_tasks' = S.scheduled_tasks

\* the inputs of the reconcile calls
ReconcileInputs ==
    CASE profile = "plain"   -> PlainInputs
      [] profile = "strings" -> StringInputs
      [] profile \in ZoneProfiles -> ZoneInputs[profile]
      [] profile = "faults"  -> FaultInputs
      [] profile = "view"    -> ViewInputs
      [] profile = "instance" -> InstanceInputs
      [] profile = "intervals" -> IntervalInputs
      [] profile \in CanonProfiles -> CanonInputs[profile]

\* The calls of sync_schedules whose context holds no settings and whose
\* PluginSetting row holds them: the ones with just one source.
SavedInputs == {in \in ReconcileInputs : Len(in.m3u) + Len(in.epg) = 1}

\* which of the two catalog providers raise during a call
RaiseChoices == IF profile = "faults" THEN SUBSET Kinds ELSE {{}}

\* the keys on which the store raises during a call: at most one
FailChoices(keys) ==
    IF profile = "faults" THEN {{}} \cup {{k} : k \in keys} ELSE {{}}

\* Plugin.__init__, with the tables as the host has them
InitPlugin ==
    /\ tasks = {ForeignTask}
    /\ crontabs = {ForeignTask.crontab}
    /\ scheduled_tasks = EmptyDict
    /\ call = Call("__init__", <<>>, <<>>, {}, EmptyDict, 0, {})
    /\ result = Result(TRUE, NewAcc(World))
    /\ refresh_interval = HostIntervals

Init == InitPlugin /\ profile = "plain"

(***************************************************************************)
(* Actions                                                                 *)
(***************************************************************************)
\* A new Plugin instance (the host restarts or reloads the plugin module).
NewInstance ==
    /\ scheduled_tasks' = EmptyDict
    /\ call' = Call("__init__", <<>>, <<>>, {}, EmptyDict, 0, {})
    /\ result' = Result(TRUE, NewAcc([World EXCEPT !.scheduled_tasks = EmptyDict]))
    /\ UNCHANGED <<tasks, crontabs, profile, refresh_interval>>

\* Plugin.on_load(context) with no celery_app in the context:
\* _setup_schedules returns at once.
OnLoadNoCelery ==
    /\ call' = Call("on_load", <<>>, <<>>, {}, EmptyDict, 0, {})
    /\ result' = Result(TRUE, NewAcc(World))
    /\ UNCHANGED <<tasks, crontabs, scheduled_tasks, profile, refresh_interval>>

\* Plugin.on_load(context) with a celery_app in the context
OnLoad ==
    \E in \in ReconcileInputs, raised \in RaiseChoices :
    LET m3u_accounts == _get_m3u_accounts(in.m3u, "m3u" \in raised)
        epg_sources  == _get_epg_sources(in.epg, "epg" \in raised)
    IN
    \E failing \in FailChoices(KeysOf(m3u_accounts, epg_sources)) :
    LET acc == _setup_schedules(World, in.settings, m3u_accounts, epg_sources,
                                in.utcoffset, failing)
    IN  /\ Commit(acc.S)
        /\ call' = Call("on_load", m3u_accounts, epg_sources, raised, in.settings,
                        in.utcoffset, failing)
        /\ result' = Result(TRUE, acc)
        /\ UNCHANGED <<profile, refresh_interval>>

\* Plugin.save_settings(settings, context)
SaveSettings ==
    \E in \in ReconcileInputs, raised \in RaiseChoices :
    LET m3u_accounts == _get_m3u_accounts(in.m3u, "m3u" \in raised)
        epg_sources  == _get_epg_sources(in.epg, "epg" \in raised)
    IN
    \E failing \in FailChoices(KeysOf(m3u_accounts, epg_sources)) :
    LET acc == save_settings(World, in.settings, m3u_accounts, epg_sources,
                             in.utcoffset, failing)
    IN  /\ Commit(acc.S)
        /\ call' = Call("save_settings", m3u_accounts, epg_sources, raised,
                        in.settings, in.utcoffset, failing)
        /\ result' = Result(acc.error = NoError, acc)
        /\ UNCHANGED <<profile, refresh_interval>>

\* Plugin.run("sync_schedules", ...).  The settings are the ones of the
\* context or, when those are empty, the ones of the PluginSetting row;
\* from_saved says which.
SyncSchedules ==
    \E in \in ReconcileInputs, raised \in RaiseChoices :
    \E from_saved \in IF in \in SavedInputs THEN BOOLEAN ELSE {FALSE} :
    LET settings     == IF from_saved THEN EmptyDict ELSE in.settings
        saved        == IF from_saved THEN in.settings ELSE EmptyDict
        used         == SyncSettings(settings, saved)
        m3u_accounts == _get_m3u_accounts(in.m3u, "m3u" \in raised)
        epg_sources  == _get_epg_sources(in.epg, "epg" \in raised)
    IN
    \E failing \in FailChoices(KeysOf(m3u_accounts, epg_sources)) :
    LET acc == _sync_schedules(World, used, m3u_accounts, epg_sources,
                               in.utcoffset, failing)
    IN  /\ Commit(acc.S)
        /\ call' = Call("sync_schedules", m3u_accounts, epg_sources, raised, used,
                        in.utcoffset, failing)
        /\ result' = Result(TRUE, acc)
        /\ UNCHANGED <<profile, refresh_interval>>

\* Plugin.run("sync_schedules", ...) with empty settings in the context and
\* no saved settings: "No saved settings found", nothing is read or written.
SyncSchedulesNoSettings ==
    /\ call' = Call("sync_schedules", <<>>, <<>>, {}, EmptyDict, 0, {})
    /\ result' = Result(FALSE, NewAcc(World))
    /\ UNCHANGED <<tasks, crontabs, scheduled_tasks, profile, refresh_interval>>

\* Plugin.run("cleanup_all_schedules", ...)
CleanupAllSchedules ==
    \E c \in Catalogs, raised \in RaiseChoices :
    LET m3u_accounts == _get_m3u_accounts(c[1], "m3u" \in raised)
        epg_sources  == _get_epg_sources(c[2], "epg" \in raised)
    IN
    \E failing \in FailChoices(KeysOf(m3u_accounts, epg_sources)) :
    LET acc == _cleanup_all_schedules(World, m3u_accounts, epg_sources, failing)
    IN  /\ Commit(acc.S)
        /\ call' = Call("cleanup_all_schedules", m3u_accounts, epg_sources, raised,
                        EmptyDict, 0, failing)
        /\ result' = Result(acc.error = NoError, acc)
        /\ UNCHANGED <<profile, refresh_interval>>

\* Plugin.on_unload()
OnUnload ==
    \E failing \in FailChoices(DOMAIN scheduled_tasks) :
    \E done \in SUBSET ((DOMAIN scheduled_tasks) \ failing) :
    /\ failing = {} => done = DOMAIN scheduled_tasks
    /\ LET S == _cleanup_schedules(World, failing, done)
       IN  /\ Commit(S)
           /\ call' = Call("on_unload", <<>>, <<>>, {}, EmptyDict, 0, failing)
           /\ result' = Result(TRUE, NewAcc(S))
           /\ UNCHANGED <<profile, refresh_interval>>

Next ==
    \/ NewInstance
    \/ OnLoadNoCelery
    \/ OnLoad
    \/ SaveSettings
    \/ SyncSchedules
    \/ SyncSchedulesNoSettings
    \/ CleanupAllSchedules
    \/ OnUnload

Spec == Init /\ [][Next]_vars

(***************************************************************************)
(* _validate_cron and _normalize_cron on their own                         *)
(*                                                                         *)
(* call holds the expression typed, the expression the last operation was  *)
(* given and the number of normalisations in a row; result holds what the  *)
(* operation returned.                                                     *)
(***************************************************************************)
\* how many times in a row _normalize_cron is applied to its own result
MaxApplications == 2

\* the fields an expression may have in each of the five positions
MinuteChoices == {<<"0">>, <<"5", "9">>, <<"6", "0">>, <<"0", "/", "5">>, <<"0", "/", "5", ",", "1", "0">>, <<"*", "/", "1", "5">>}
HourChoices   == {<<"0">>, <<"2", "3">>, <<"2", "4">>, <<"0", "/">>, <<"*">>}
DayChoices    == {<<"0">>, <<"1">>, <<"3", "1">>, <<"3", "2">>, <<"1", "-", "5">>}
MonthChoices  == {<<"0">>, <<"1", "2">>, <<"1", "3">>, <<"*", "/", "9", "9">>}
WeekdayChoices == {<<"6">>, <<"7">>, <<"7", "-", "9">>, <<"x">>}

\* expressions with other than five fields, with surrounding or repeated
\* blanks, with a letter
OddExpressions ==
    { <<>>, <<" ">>, <<"*", " ", "*", " ", "*", " ", "*">>, <<"*", " ", "*", " ", "*", " ", "*", " ", "*", " ", "*">>,
      <<" ", " ", "0", "/", "5", " ", " ", "2", "2", " ", "*", " ", "*", " ", "*", " ", " ">>,
      <<"0", " ", "2", "2", " ", "*", " ", "*", " ", "M", "O", "N">> }

CronInputs ==
    { join(<<mi, h, d, mo, w>>) :
        mi \in MinuteChoices, h \in HourChoices, d \in DayChoices,
        mo \in MonthChoices, w \in WeekdayChoices }
      \cup OddExpressions

InitCron ==
    /\ tasks = {} /\ crontabs = {} /\ scheduled_tasks = EmptyDict
    /\ refresh_interval = EmptyDict
    /\ profile = "cron"
    /\ \E e \in CronInputs :
         call = [op |-> "typed", typed |-> e, cron_expr |-> e, n |-> 0]
    /\ result = [returned |-> None]

\* self._validate_cron(cron_expr) on the expression typed
ValidateCron ==
    /\ call' = [op |-> "_validate_cron", typed |-> call.typed,
                cron_expr |-> call.typed, n |-> 0]
    /\ result' = [returned |-> _validate_cron(call.typed)]
    /\ UNCHANGED <<tasks, crontabs, scheduled_tasks, profile, refresh_interval>>

\* cron_expr = self._normalize_cron(cron_expr): on the expression typed, or
\* on what the normalisation before returned
NormalizeCron ==
    /\ call.n < MaxApplications
    /\ LET cron_expr == IF call.op = "_normalize_cron"
                        THEN result.returned ELSE call.typed
       IN  /\ call' = [op |-> "_normalize_cron", typed |-> call.typed,
                       cron_expr |-> cron_expr, n |-> call.n + 1]
           /\ result' = [returned |-> _normalize_cron(cron_expr)]
    /\ UNCHANGED <<tasks, crontabs, scheduled_tasks, profile, refresh_interval>>

NextCron == ValidateCron \/ NormalizeCron

SpecCron == InitCron /\ [][NextCron]_vars

(***************************************************************************)
(* The two time conversions on their own                                   *)
(*                                                                         *)
(* call holds the minute and hour typed, the timezone, its offset when the *)
(* schedule is saved and its offset when the schedule is viewed; result    *)
(* holds the minute and hour stored and what _convert_utc_to_local         *)
(* returned for them.                                                      *)
(***************************************************************************)
\* literal hours and minutes that pass _validate_cron
TimeHours   == {str(h) : h \in 0..23} \cup {<<"0", "7">>}
TimeMinutes == {<<"0">>, <<"5">>, <<"0", "5">>, <<"3", "0">>, <<"5", "9">>}

TimeZones ==
    { <<"UTC", FALSE>>, <<"US/Eastern", FALSE>>, <<"US/Eastern", TRUE>>,
      <<"Asia/Kolkata", FALSE>>, <<"Mars/Olympus", FALSE>> }

InitTime ==
    /\ tasks = {} /\ crontabs = {} /\ scheduled_tasks = EmptyDict
    /\ profile = "time"
    /\ refresh_interval = EmptyDict
    /\ \E hour \in TimeHours, minute \in TimeMinutes, z \in TimeZones :
         /\ call = [op |-> "typed", minute |-> minute, hour |-> hour,
                    user_timezone |-> z[1], utcoffset |-> UtcOffset(z[1], z[2]),
                    view_utcoffset |-> UtcOffset(z[1], z[2])]
         /\ result = [minute |-> minute, hour |-> hour, returned |-> None]

\* the conversion of the upsert (plugin.py 309-341)
ConvertToUtc ==
    /\ call.op = "typed"
    /\ LET schedule == UtcFields(<<call.minute, call.hour, <<"*">>, <<"*">>, <<"*">>>>,
                                 call.user_timezone, call.utcoffset)
       IN  /\ call' = [call EXCEPT !.op = "to_utc"]
           /\ result' = [result EXCEPT !.minute = schedule[1], !.hour = schedule[2]]
    /\ UNCHANGED <<tasks, crontabs, scheduled_tasks, profile, refresh_interval>>

\* self._convert_utc_to_local(cron.minute, cron.hour, user_timezone), in the
\* same season or in the other one
ConvertUtcToLocal ==
    /\ call.op = "to_utc"
    /\ \E dst \in BOOLEAN :
         LET utcoffset == UtcOffset(call.user_timezone, dst)
         IN  /\ call' = [call EXCEPT !.op = "_convert_utc_to_local",
                                     !.view_utcoffset = utcoffset]
             /\ result' = [result EXCEPT !.returned =
                             _convert_utc_to_local(result.minute, result.hour,
                                                   call.user_timezone, utcoffset)]
    /\ UNCHANGED <<tasks, crontabs, scheduled_tasks, profile, refresh_interval>>

NextTime == ConvertToUtc \/ ConvertUtcToLocal

SpecTime == InitTime /\ [][NextTime]_vars

\* the plugin in a host whose catalog queries and store may raise
InitFaults == InitPlugin /\ profile = "faults"
SpecFaults == InitFaults /\ [][Next]_vars

\* the plugin with users in several timezones and seasons
InitZones == InitPlugin /\ profile \in ZoneProfiles
SpecZones == InitZones /\ [][Next]_vars

\* the plugin in a host whose settings hold the enabled flags as strings
InitStrings == InitPlugin /\ profile = "strings"
SpecStrings == InitStrings /\ [][Next]_vars

InitCanon == InitPlugin /\ profile \in CanonProfiles
SpecCanon == InitCanon /\ [][Next]_vars

(***************************************************************************)
(* view_schedules, with a host administrator who switches descriptors off  *)
(* and on in the django-celery-beat admin pages                            *)
(***************************************************************************)
InitView == InitPlugin /\ profile = "view"

\* The administrator sets the enabled flag of one of the plugin's rows.
AdminSetsEnabled ==
    \E t \in Owned(tasks), b \in BOOLEAN :
        /\ t.enabled # b
        /\ tasks' = (tasks \ {t}) \cup {[t EXCEPT !.enabled = b]}
        /\ call' = Call("admin", <<>>, <<>>, {}, EmptyDict, 0, {})
        /\ result' = Result(TRUE, NewAcc(World))
        /\ UNCHANGED <<crontabs, scheduled_tasks, profile, refresh_interval>>

\* Plugin.run("view_schedules", ...)
ViewSchedules ==
    \E c \in Catalogs, saved \in ViewSaved :
    LET m3u_accounts == _get_m3u_accounts(c[1], FALSE)
        epg_sources  == _get_epg_sources(c[2], FALSE)
        utcoffset    == UtcOffset(Get(saved, TimezoneKey, "US/Central"), FALSE)
    IN  /\ call' = Call("view_schedules", m3u_accounts, epg_sources, {}, saved,
                        utcoffset, {})
        /\ result' = _view_schedules(tasks, saved, m3u_accounts, epg_sources,
                                     utcoffset)
        /\ UNCHANGED <<tasks, crontabs, scheduled_tasks, profile, refresh_interval>>

NextView == SaveSettings \/ AdminSetsEnabled \/ ViewSchedules

SpecView == InitView /\ [][NextView]_vars

(***************************************************************************)
(* disable_refresh_intervals, with a host whose users set the refresh      *)
(* intervals of the sources                                                *)
(***************************************************************************)
InitIntervals ==
    /\ tasks = {ForeignTask}
    /\ crontabs = {ForeignTask.crontab}
    /\ scheduled_tasks = EmptyDict
    /\ profile = "intervals"
    /\ call = Call("__init__", <<>>, <<>>, {}, EmptyDict, 0, {})
    /\ result = Result(TRUE, NewAcc(World))
    /\ refresh_interval \in [SourceKeys -> IntervalValues]

\* A user of the host gives a source a refresh interval.
HostSetsInterval ==
    \E k \in SourceKeys :
        /\ refresh_interval[k].attr
        /\ refresh_interval[k] # Interval(24)
        /\ refresh_interval' = [refresh_interval EXCEPT ![k] = Interval(24)]
        /\ call' = Call("host", <<>>, <<>>, {}, EmptyDict, 0, {})
        /\ result' = Result(TRUE, NewAcc(World))
        /\ UNCHANGED <<tasks, crontabs, scheduled_tasks, profile>>

\* Plugin.run("disable_refresh_intervals", ...); save() may raise on one of
\* the sources (failing), and then the call returns the error alone.
DisableRefreshIntervals ==
    \E c \in Catalogs :
    LET m3u_accounts == _get_m3u_accounts(c[1], FALSE)
        epg_sources  == _get_epg_sources(c[2], FALSE)
    IN
    \E failing \in {{}} \cup {{k} : k \in KeysOf(m3u_accounts, epg_sources)} :
    LET acc == _disable_refresh_intervals(refresh_interval, m3u_accounts,
                                          epg_sources, failing)
        ok  == acc.error = NoError
    IN  /\ refresh_interval' = acc.intervals
        /\ call' = Call("disable_refresh_intervals", m3u_accounts, epg_sources,
                        {}, EmptyDict, 0, failing)
        /\ result' = [success     |-> ok,
                      updated_m3u |-> IF ok THEN acc.updated.m3u ELSE <<>>,
                      updated_epg |-> IF ok THEN acc.updated.epg ELSE <<>>]
        /\ UNCHANGED <<tasks, crontabs, scheduled_tasks, profile>>

NextIntervals == SaveSettings \/ HostSetsInterval \/ DisableRefreshIntervals

SpecIntervals == InitIntervals /\ [][NextIntervals]_vars

(***************************************************************************)
(* One Plugin instance from its construction on                            *)
(*                                                                         *)
(* The store may hold descriptors that an earlier instance left; that      *)
(* instance ran for a user in Asia/Kolkata, so its rows are the ones whose *)
(* description names that timezone.                                        *)
(***************************************************************************)
\* the store with the rows the earlier instance left for the sources of keys
LegacyWorld(keys) ==
    LET empty == [tasks |-> {ForeignTask}, crontabs |-> {ForeignTask.crontab},
                  scheduled_tasks |-> EmptyDict, created |-> {}, deleted |-> {}]
        left(k) == CreateOrUpdate(empty, k[1], k[2], CronValid, "Asia/Kolkata",
                                  UtcOffset("Asia/Kolkata", FALSE), FALSE)
    IN  [tasks    |-> {ForeignTask} \cup UNION {left(k).tasks : k \in keys},
         crontabs |-> {ForeignTask.crontab} \cup UNION {left(k).crontabs : k \in keys}]

InitInstance ==
    /\ \E keys \in SUBSET SourceKeys :
         /\ tasks = LegacyWorld(keys).tasks
         /\ crontabs = LegacyWorld(keys).crontabs
    /\ scheduled_tasks = EmptyDict
    /\ profile = "instance"
    /\ refresh_interval = HostIntervals
    /\ call = Call("__init__", <<>>, <<>>, {}, EmptyDict, 0, {})
    /\ result = Result(TRUE, NewAcc([tasks |-> {}, crontabs |-> {},
                                     scheduled_tasks |-> EmptyDict,
                                     created |-> {}, deleted |-> {}]))

NextInstance ==
    \/ OnLoadNoCelery
    \/ OnLoad
    \/ SaveSettings
    \/ SyncSchedules
    \/ SyncSchedulesNoSettings
    \/ CleanupAllSchedules
    \/ OnUnload

SpecInstance == InitInstance /\ [][NextInstance]_vars

(***************************************************************************)
(* The upsert step by step, with a concurrent reader                       *)
(*                                                                         *)
(* One upsert at a time runs through its "with transaction.atomic()"       *)
(* block; call holds its position (pc), its arguments and the tables as    *)
(* the transaction sees them (pending).  Another database connection reads *)
(* the two tables at any point of the block; result holds what it read.    *)
(***************************************************************************)
TxnZones == {<<"UTC", FALSE>>, <<"US/Eastern", FALSE>>}

TxnIdle == [pc |-> "idle"]

NoRead == [pc |-> "none", key |-> <<>>, before |-> {}, row |-> {},
           tasks |-> {}, crontabs |-> {}]

\* a transaction whose task table is read before it commits
transaction_atomic_dirty(committed, pending) ==
    [tasks |-> pending.tasks, crontabs |-> committed.crontabs]

\* with transaction.atomic(): what another connection reads while the block
\* runs is what was committed before it
transaction_atomic(committed, pending) == committed

\* the world after the two writes of the block
TxnUpserted(c) ==
    CreateOrUpdate([tasks |-> c.pending.tasks, crontabs |-> c.pending.crontabs,
                    scheduled_tasks |-> scheduled_tasks,
                    created |-> {}, deleted |-> {}],
                   c.key[1], c.key[2], c.cron_expr, c.user_timezone, c.utcoffset,
                   FALSE)

InitTxn ==
    /\ tasks = {ForeignTask}
    /\ crontabs = {ForeignTask.crontab}
    /\ scheduled_tasks = EmptyDict
    /\ profile = "txn"
    /\ refresh_interval = HostIntervals
    /\ call = TxnIdle
    /\ result = NoRead

\* _create_or_update_*_schedule up to the entry of the atomic block
TxnBegin ==
    /\ call.pc = "idle"
    /\ \E k \in SourceKeys, z \in TxnZones :
         call' = [pc |-> "atomic", key |-> k, cron_expr |-> CronValid,
                  user_timezone |-> z[1], utcoffset |-> UtcOffset(z[1], z[2]),
                  before |-> tasks,
                  pending |-> [tasks |-> tasks, crontabs |-> crontabs]]
    /\ result' = NoRead
    /\ UNCHANGED <<tasks, crontabs, scheduled_tasks, profile, refresh_interval>>

\* CrontabSchedule.objects.get_or_create(...)
TxnGetOrCreate ==
    /\ call.pc = "atomic"
    /\ call' = [call EXCEPT !.pc = "crontab",
                            !.pending.crontabs = TxnUpserted(call).crontabs]
    /\ UNCHANGED <<tasks, crontabs, scheduled_tasks, profile, refresh_interval, result>>

\* PeriodicTask.objects.update_or_create(...)
TxnUpdateOrCreate ==
    /\ call.pc = "crontab"
    /\ call' = [call EXCEPT !.pc = "task",
                            !.pending.tasks = TxnUpserted(call).tasks]
    /\ UNCHANGED <<tasks, crontabs, scheduled_tasks, profile, refresh_interval, result>>

\* the registry entry is set and the block ends: the transaction commits
TxnCommit ==
    /\ call.pc = "task"
    /\ tasks' = call.pending.tasks
    /\ crontabs' = call.pending.crontabs
    /\ scheduled_tasks' = TxnUpserted(call).scheduled_tasks
    /\ call' = TxnIdle
    /\ UNCHANGED <<profile, refresh_interval, result>>

\* a statement of the block raises: the transaction is rolled back and the
\* handler logs the error
TxnRaise ==
    /\ call.pc \in {"atomic", "crontab"}
    /\ call' = TxnIdle
    /\ UNCHANGED <<tasks, crontabs, scheduled_tasks, profile, refresh_interval, result>>

\* another connection reads the two tables while the block runs
ReaderReads ==
    /\ call.pc # "idle"
    /\ LET seen == transaction_atomic([tasks |-> tasks, crontabs |-> crontabs],
                                      call.pending)
       IN  result' = [pc |-> call.pc, key |-> call.key, before |-> call.before,
                      row |-> RowsNamed(TxnUpserted(call).tasks,
                                       TaskName(call.key[1], call.key[2])),
                      tasks |-> seen.tasks, crontabs |-> seen.crontabs]
    /\ UNCHANGED <<tasks, crontabs, scheduled_tasks, profile, refresh_interval, call>>

NextTxn ==
    \/ TxnBegin
    \/ TxnGetOrCreate
    \/ TxnUpdateOrCreate
    \/ TxnCommit
    \/ TxnRaise
    \/ ReaderReads

SpecTxn == InitTxn /\ [][NextTxn]_vars

(***************************************************************************)
(* Vocabulary of the properties                                            *)
(***************************************************************************)
\* the (kind, id) keys of the sources the last call read
CallKeys == KeysOf(call.m3u, call.epg)

\* the sources a call read, in processing order: M3U accounts, then EPG sources
ProcessingOrder(c) ==
    [i \in 1..(Len(c.m3u) + Len(c.epg)) |->
        IF i <= Len(c.m3u) THEN <<"m3u", c.m3u[i]>>
        ELSE <<"epg", c.epg[i - Len(c.m3u)]>>]

\* the rows of a table that are the descriptor of source k
Descriptor(rows, k) == RowsNamed(rows, TaskName(k[1], k[2]))

HasDescriptor(rows, k) == Descriptor(rows, k) # {}

\* the registry entry of source k: the set holding its value, or empty
RegistryEntry(reg, k) ==
    LET rk == IF k[1] = "m3u" THEN M3uRegKey(k[2]) ELSE EpgRegKey(k[2])
    IN  IF rk \in DOMAIN reg THEN {reg[rk]} ELSE {}

\* the source's enabled flag in the settings: a true boolean or one of the
\* truthy string encodings
EnabledIn(settings, k) ==
    LET v == Get(settings, EnabledKey(k[1], k[2]), PyBool(FALSE))
    IN  IF v.isStr THEN lower(v.s) \in TruthyStrings ELSE v.b

\* the source's trimmed cron string in the settings
CronIn(settings, k) == strip(Get(settings, ScheduleKey(k[1], k[2]), <<>>))

\* the source is to have a schedule: enabled with a non-empty trimmed cron
Wanted(settings, k) == EnabledIn(settings, k) /\ CronIn(settings, k) # <<>>

\* the source is wanted and its cron fails validation
Rejected(settings, k) == Wanted(settings, k) /\ ~_validate_cron(CronIn(settings, k))

Reconciles == {"save_settings", "sync_schedules"}

\* the members of a sequence
Members(q) == {q[i] : i \in 1..Len(q)}

(***************************************************************************)
(* C1                                                                      *)
(***************************************************************************)
\* C1: after save_settings returns success with no store error, a source of
\* the catalog the call read has a descriptor if and only if it is enabled
\* and its trimmed cron string is non-empty.
C1_SaveSettlesEverySource ==
    (call.op = "save_settings" /\ result.success /\ call.failing = {})
        => \A k \in CallKeys : HasDescriptor(tasks, k) <=> Wanted(call.settings, k)

\* A successful save that upserted over an existing descriptor for one
\* source and deleted the existing descriptor of another.
C1_Witness ==
    /\ call.op = "save_settings" /\ result.success
    /\ \E k, j \in CallKeys :
         /\ Wanted(call.settings, k) /\ HasDescriptor(tasks, k) /\ k \notin result.created
         /\ ~Wanted(call.settings, j) /\ ~HasDescriptor(tasks, j) /\ j \in result.deleted

(***************************************************************************)
(* C2                                                                      *)
(***************************************************************************)
\* C2: in every reachable state the store holds at most one descriptor per
\* (source type, source id) key.
C2_OneDescriptorPerKey ==
    \A k \in SourceKeys : Cardinality(Descriptor(tasks, k)) <= 1

\* An upsert met an existing descriptor (it logged "Updated") and the key
\* still has a descriptor.
C2_Witness ==
    /\ call.op \in Reconciles \cup {"on_load"}
    /\ \E k \in CallKeys :
         /\ k[2] \in Members(result.synced[k[1]]) \/ call.op = "on_load"
         /\ Wanted(call.settings, k)
         /\ k \notin result.created
         /\ HasDescriptor(tasks, k)

(***************************************************************************)
(* C3                                                                      *)
(***************************************************************************)
\* C3: a reconcile call that repeats the call before it (same entry point,
\* same catalog, same settings, same timezone offset) leaves the store as
\* the first call left it and creates no descriptor.
C3_ReconcileIdempotent ==
    [][ (call'.op \in Reconciles /\ call' = call)
            => (tasks' = tasks /\ result'.created = {}) ]_vars

\* What a repeated call leaves: every wanted source upserted, every upsert
\* an update of an existing descriptor.
C3_Witness ==
    /\ call.op \in Reconciles /\ result.success
    /\ \E k \in CallKeys : Wanted(call.settings, k) /\ HasDescriptor(tasks, k)
    /\ \E j \in CallKeys : ~Wanted(call.settings, j) /\ j \notin result.deleted
    /\ result.created = {}

(***************************************************************************)
(* C4                                                                      *)
(***************************************************************************)
\* settings b are settings a with source k switched from enabled to disabled
\* and nothing else changed
DisablesOnly(a, b, k) ==
    /\ DOMAIN a = DOMAIN b
    /\ EnabledKey(k[1], k[2]) \in DOMAIN a
    /\ EnabledIn(a, k) /\ ~EnabledIn(b, k)
    /\ \A x \in DOMAIN a : x # EnabledKey(k[1], k[2]) => a[x] = b[x]

\* C4: when a successful reconcile is followed by a successful reconcile of
\* the same catalog whose settings differ only in that one source, which has
\* a descriptor, is now disabled, then exactly that descriptor is removed and
\* every other row of the store is unchanged.
C4_DisableRemovesOnlyOwn ==
    [][ \A k \in SourceKeys :
          ( /\ call.op \in Reconciles /\ result.success
            /\ call'.op \in Reconciles /\ result'.success
            /\ call.failing = {} /\ call'.failing = {}
            /\ call'.m3u = call.m3u /\ call'.epg = call.epg
            /\ call'.utcoffset = call.utcoffset
            /\ k \in KeysOf(call.m3u, call.epg)
            /\ DisablesOnly(call.settings, call'.settings, k)
            /\ HasDescriptor(tasks, k) )
          => tasks' = tasks \ Descriptor(tasks, k) ]_vars

\* A reconcile deleted the descriptor of a disabled source while another
\* source of the same call kept its descriptor.
C4_Witness ==
    /\ call.op \in Reconciles /\ result.success
    /\ \E k, j \in CallKeys :
         /\ ~EnabledIn(call.settings, k) /\ CronIn(call.settings, k) # <<>>
         /\ k \in result.deleted /\ ~HasDescriptor(tasks, k)
         /\ j # k /\ HasDescriptor(tasks, j) /\ j \notin result.created

(***************************************************************************)
(* C5                                                                      *)
(***************************************************************************)
\* C5: after a reconcile completes, the store holds no plugin-owned
\* descriptor whose key is not a source of the catalog the reconcile read.
C5_NoDescriptorOutsideCatalog ==
    (call.op \in Reconciles /\ result.success /\ call.failing = {})
        => \A k \in SourceKeys : HasDescriptor(tasks, k) => k \in CallKeys

(***************************************************************************)
(* C6                                                                      *)
(***************************************************************************)
\* C6: after cleanup_all_schedules returns success, the store holds no
\* descriptor owned by the plugin, and the count it reports is the number of
\* descriptors it deleted.
C6_CleanupAllLeavesNoneOwned ==
    (call.op = "cleanup_all_schedules" /\ result.success)
        => /\ Owned(tasks) = {}
           /\ result.count = Cardinality(result.deleted)

(***************************************************************************)
(* C7                                                                      *)
(***************************************************************************)
\* C7: after on_unload (with no store error), no descriptor owned by the
\* plugin remains in the store.
C7_UnloadLeavesNoneOwned ==
    (call.op = "on_unload" /\ call.failing = {}) => Owned(tasks) = {}

(***************************************************************************)
(* C8                                                                      *)
(***************************************************************************)
\* C8: a save_settings that reports a validation error leaves the store as
\* it was before the call.
C8_FailedSaveCommitsNothing ==
    [][ (call'.op = "save_settings" /\ ~result'.success) => tasks' = tasks ]_vars

(***************************************************************************)
(* C9                                                                      *)
(***************************************************************************)
\* the positions, in processing order, of the sources whose cron is rejected
RejectedAt(c) ==
    {i \in DOMAIN ProcessingOrder(c) : Rejected(c.settings, ProcessingOrder(c)[i])}

\* the least member of a non-empty set of numbers
Least(T) == CHOOSE i \in T : \A j \in T : i <= j

\* C9: save_settings fails exactly when some source read is enabled with a
\* non-empty cron that fails validation; it then names the first such source
\* in processing order and its expression, and neither the descriptor nor
\* the registry entry of that source or of any later source is changed.
C9_SaveHaltsAtFirstInvalid ==
    [][ call'.op = "save_settings" =>
          LET order == ProcessingOrder(call')
              bad   == RejectedAt(call')
          IN  IF bad = {}
              THEN result'.success /\ result'.error = NoError
              ELSE /\ ~result'.success
                   /\ result'.error = <<order[Least(bad)][1], order[Least(bad)][2],
                                        CronIn(call'.settings, order[Least(bad)])>>
                   /\ \A i \in Least(bad)..Len(order) :
                        /\ Descriptor(tasks', order[i]) = Descriptor(tasks, order[i])
                        /\ RegistryEntry(scheduled_tasks', order[i])
                             = RegistryEntry(scheduled_tasks, order[i])
                        /\ order[i][2] \notin Members(result'.synced[order[i][1]])
                        /\ order[i][2] \notin Members(result'.removed[order[i][1]]) ]_vars

\* A save halted at an M3U account while an EPG source of the same call,
\* enabled with a valid cron, was left without a descriptor.
C9_Witness ==
    /\ call.op = "save_settings" /\ ~result.success
    /\ result.error # NoError /\ result.error[1] = "m3u"
    /\ \E j \in CallKeys :
         /\ j[1] = "epg"
         /\ Wanted(call.settings, j) /\ ~Rejected(call.settings, j)
         /\ ~HasDescriptor(tasks, j)

(***************************************************************************)
(* C10                                                                     *)
(***************************************************************************)
\* C10: sync_schedules (with no store error) returns success; a source
\* whose cron is rejected keeps its descriptor and registry entry as they
\* were and is in neither report; every other source read is processed: a
\* wanted one has a descriptor and is reported synced, any other has none
\* and is reported removed.
C10_SyncSkipsInvalid ==
    [][ (call'.op = "sync_schedules" /\ call'.settings # EmptyDict
           /\ call'.failing = {}) =>
          /\ result'.success
          /\ \A k \in KeysOf(call'.m3u, call'.epg) :
               LET synced  == k[2] \in Members(result'.synced[k[1]])
                   removed == k[2] \in Members(result'.removed[k[1]])
               IN  IF Rejected(call'.settings, k)
                   THEN /\ Descriptor(tasks', k) = Descriptor(tasks, k)
                        /\ RegistryEntry(scheduled_tasks', k)
                             = RegistryEntry(scheduled_tasks, k)
                        /\ ~synced /\ ~removed
                   ELSE IF Wanted(call'.settings, k)
                   THEN HasDescriptor(tasks', k) /\ synced /\ ~removed
                   ELSE ~HasDescriptor(tasks', k) /\ removed /\ ~synced ]_vars

\* A sync skipped a rejected source that has a descriptor from before and
\* upserted another source of the same call.
C10_Witness ==
    /\ call.op = "sync_schedules" /\ result.success
    /\ \E k, j \in CallKeys :
         /\ Rejected(call.settings, k) /\ HasDescriptor(tasks, k)
         /\ j # k /\ Wanted(call.settings, j) /\ HasDescriptor(tasks, j)
         /\ j[2] \in Members(result.synced[j[1]])

(***************************************************************************)
(* C11                                                                     *)
(***************************************************************************)
\* the value of the source's enabled key in the settings
EnabledValue(settings, k) == Get(settings, EnabledKey(k[1], k[2]), PyBool(FALSE))

\* C11: in save_settings, sync_schedules and on_load alike, a source whose
\* enabled value is a string has a descriptor after the call only if the
\* lower-cased string is "true", "1", "yes" or "on": "false", "0", "no" and
\* "off" neither create a descriptor nor keep one; and a string that does
\* count as enabled, with a valid cron, gives the source its descriptor.
C11_StringEnabledByContent ==
    (call.op \in Reconciles \cup {"on_load"} /\ call.failing = {})
        => \A k \in CallKeys :
             LET v == EnabledValue(call.settings, k)
             IN  v.isStr =>
                   IF lower(v.s) \in TruthyStrings
                   THEN Rejected(call.settings, k) \/ HasDescriptor(tasks, k)
                   ELSE ~HasDescriptor(tasks, k)

(***************************************************************************)
(* C12                                                                     *)
(***************************************************************************)
\* the characters of a cron field
CronAlphabet == {"0", "1", "2", "3", "4", "5", "6", "7", "8", "9", "*", "/", "-", ","}

\* the documented range of each of the five fields
FieldRanges == <<0..59, 0..23, 1..31, 1..12, 0..6>>

\* five fields, every character in the alphabet, every all-digit field in
\* its range
WellFormedCron(e) ==
    LET fields == split(strip(e))
    IN  /\ Len(fields) = 5
        /\ \A i \in 1..5 :
             /\ \A j \in 1..Len(fields[i]) : fields[i][j] \in CronAlphabet
             /\ isdigit(fields[i]) => int(fields[i]) \in FieldRanges[i]

\* C12: _validate_cron returns true exactly for the expressions of five
\* whitespace-separated fields whose characters are all in 0-9 * / - , and
\* whose all-digit fields lie in their ranges; a field holding * / - or , is
\* not range-checked.
C12_ValidateCharacterised ==
    call.op = "_validate_cron" => (result.returned <=> WellFormedCron(call.cron_expr))

\* An expression accepted although a composite field of it holds numbers
\* outside the field's range.
C12_Witness ==
    /\ call.op = "_validate_cron" /\ result.returned = TRUE
    /\ split(strip(call.cron_expr))[4] = <<"*", "/", "9", "9">>
    /\ split(strip(call.cron_expr))[5] = <<"7", "-", "9">>

(***************************************************************************)
(* C13                                                                     *)
(***************************************************************************)
\* the field is 0/<N>, N a step value (a number)
IsZeroStep(field) ==
    /\ Len(field) >= 3 /\ field[1] = "0" /\ field[2] = "/"
    /\ isdigit(SubSeq(field, 3, Len(field)))

\* C13: applied to a validated expression, _normalize_cron returns the five
\* fields with each field 0/<N> turned into */<N> and every other field,
\* "0/" and "0/5,10" among them, as it was.
C13_NormalizeRewritesZeroStepOnly ==
    (call.op = "_normalize_cron" /\ WellFormedCron(call.cron_expr))
        => LET given    == split(strip(call.cron_expr))
               returned == split(result.returned)
           IN  /\ Len(returned) = 5
               /\ \A i \in 1..5 :
                    returned[i] = IF IsZeroStep(given[i])
                                  THEN <<"*", "/">> \o SubSeq(given[i], 3, Len(given[i]))
                                  ELSE given[i]

(***************************************************************************)
(* C14                                                                     *)
(***************************************************************************)
\* C14: normalising what _normalize_cron returned for a validated expression
\* returns it unchanged.
C14_NormalizeIdempotent ==
    [][ (call.op = "_normalize_cron" /\ call'.op = "_normalize_cron"
           /\ WellFormedCron(call.typed))
          => result'.returned = result.returned ]_vars

\* The second normalisation of an expression that the first one changed in
\* two fields.
C14_Witness ==
    /\ call.op = "_normalize_cron" /\ call.n = 2
    /\ WellFormedCron(call.typed)
    /\ IsZeroStep(split(call.typed)[1]) /\ startswith(split(call.typed)[2], <<"0", "/">>)
    /\ call.cron_expr # call.typed
    /\ result.returned = call.cron_expr

(***************************************************************************)
(* C15                                                                     *)
(***************************************************************************)
\* the entry points that upsert descriptors
Upserts == Reconciles \cup {"on_load"}

\* the timezone the settings configure
TimezoneIn(settings) == Get(settings, TimezoneKey, "US/Central")

\* the five fields of the source's cron after normalisation
FieldsIn(settings, k) == split(_normalize_cron(CronIn(settings, k)))

\* the source was upserted by the last call: it is wanted, its cron is
\* valid and the store did not raise
Upserted(k) ==
    /\ call.op \in Upserts /\ call.failing = {}
    /\ k \in CallKeys
    /\ Wanted(call.settings, k) /\ ~Rejected(call.settings, k)

\* C15: when the timezone is "UTC", or the minute field or the hour field is
\* not a pure integer literal, the minute and hour stored in the descriptor
\* are the normalised input fields; they differ from them only under a
\* timezone other than UTC with both fields integer literals.
C15_ShiftOnlyLiteralsOutsideUtc ==
    \A k \in SourceKeys :
      Upserted(k) =>
        /\ HasDescriptor(tasks, k)
        /\ \A row \in Descriptor(tasks, k) :
             LET fields == FieldsIn(call.settings, k)
             IN  (\/ TimezoneIn(call.settings) = "UTC"
                  \/ ~isdigit(fields[1])
                  \/ ~isdigit(fields[2]))
                 => (row.crontab[1] = fields[1] /\ row.crontab[2] = fields[2])

\* Under US/Eastern, the descriptor of "*/15 3 * * *" (composite minute,
\* literal hour) stored with minute */15 and hour 3.
C15_Witness ==
    /\ TimezoneIn(call.settings) = "US/Eastern"
    /\ \E k \in SourceKeys :
         /\ Upserted(k)
         /\ CronIn(call.settings, k) = CronMinuteStep
         /\ \E row \in Descriptor(tasks, k) :
              row.crontab[1] = <<"*", "/", "1", "5">> /\ row.crontab[2] = <<"3">>

(***************************************************************************)
(* C16                                                                     *)
(***************************************************************************)
\* C16: for a literal hour h and minute m under a timezone other than UTC
\* whose offset at the time of the call is d minutes, the descriptor holds
\* the minute and hour of (60*h + m - d) mod 1440; "0 22 * * *" in
\* US/Eastern is stored as "0 3" at UTC-5 and as "0 2" at UTC-4.
C16_StoredTimeIsLocalMinusOffset ==
    \A k \in SourceKeys :
      (Upserted(k) /\ TimezoneIn(call.settings) \in KnownZones \ {"UTC"}) =>
        \A row \in Descriptor(tasks, k) :
          LET fields == FieldsIn(call.settings, k)
              d      == call.utcoffset
          IN  (isdigit(fields[1]) /\ isdigit(fields[2])) =>
                LET utc == (60 * int(fields[2]) + int(fields[1]) - d) % 1440
                IN  /\ row.crontab[1] = str(utc % 60)
                    /\ row.crontab[2] = str(utc \div 60)
                    /\ (CronIn(call.settings, k) = CronValid /\ d = -300)
                          => (row.crontab[1] = <<"0">> /\ row.crontab[2] = <<"3">>)
                    /\ (CronIn(call.settings, k) = CronValid /\ d = -240)
                          => (row.crontab[1] = <<"0">> /\ row.crontab[2] = <<"2">>)

\* "0 22 * * *" stored during daylight-saving time in US/Eastern.
C16_Witness ==
    /\ TimezoneIn(call.settings) = "US/Eastern" /\ call.utcoffset = -240
    /\ \E k \in SourceKeys :
         /\ Upserted(k)
         /\ CronIn(call.settings, k) = CronValid
         /\ \E row \in Descriptor(tasks, k) :
              row.crontab[1] = <<"0">> /\ row.crontab[2] = <<"2">>

(***************************************************************************)
(* C18                                                                     *)
(***************************************************************************)
\* C18: when pytz does not know the configured timezone name, every wanted
\* source with a valid cron is still upserted, with the minute and hour of
\* its normalised cron unconverted, and save_settings and sync_schedules
\* report each of them synced and return success.
C18_UnknownZoneFailsSoft ==
    (call.op \in Upserts /\ call.failing = {}
       /\ TimezoneIn(call.settings) \notin KnownZones) =>
      \A k \in CallKeys :
        (Wanted(call.settings, k) /\ ~Rejected(call.settings, k)) =>
          /\ HasDescriptor(tasks, k)
          /\ \A row \in Descriptor(tasks, k) :
               /\ row.crontab = FieldsIn(call.settings, k)
               /\ row.description.tz = TimezoneIn(call.settings)
          /\ call.op \in Reconciles =>
               (result.success /\ k[2] \in Members(result.synced[k[1]]))

\* A reconcile of two sources under an unknown timezone name: both are
\* stored with the time as typed.
C18_Witness ==
    /\ call.op \in Reconciles
    /\ TimezoneIn(call.settings) = "Mars/Olympus"
    /\ Cardinality(CallKeys) > 1
    /\ \A k \in CallKeys :
         /\ CronIn(call.settings, k) = CronValid
         /\ k \in result.created
         /\ \E row \in Descriptor(tasks, k) :
              row.crontab[1] = <<"0">> /\ row.crontab[2] = <<"2", "2">>

(***************************************************************************)
(* C17                                                                     *)
(***************************************************************************)
\* the position of the colon in a time like "10:05 PM"
ColonOf(t) == CHOOSE i \in 1..Len(t) : t[i] = ":"

\* the hour (0-23) and the minute that a time like "10:05 PM" denotes
ClockHour(t) ==
    (int(SubSeq(t, 1, ColonOf(t) - 1)) % 12)
      + (IF t[ColonOf(t) + 4] = "P" THEN 12 ELSE 0)

ClockMinute(t) == int(SubSeq(t, ColonOf(t) + 1, ColonOf(t) + 2))

Reported(k) ==
    \/ k[2] \in Members(result.synced[k[1]])
    \/ k[2] \in Members(result.removed[k[1]])

\* C19: when the store raises on the upsert or delete of one source during
\* save_settings or sync_schedules, that source is reported neither as
\* synced nor as removed, and every other source read is still processed: a
\* wanted one has its descriptor, any other has none.
C19_StoreFailureSurfaced ==
    call.op \in Reconciles =>
      /\ \A k \in call.failing : ~Reported(k)
      /\ \A j \in CallKeys \ call.failing :
           HasDescriptor(tasks, j) <=> Wanted(call.settings, j)

(***************************************************************************)
(* C20                                                                     *)
(***************************************************************************)
\* the plugin's rows for sources of one kind
RowsOfKind(rows, kind) == {t \in Owned(rows) : t.name[2] = kind}

C21_AbsentConfigReconciles ==
    [][ (call'.op = "sync_schedules" /\ call'.settings = EmptyDict
            /\ call.op \in Reconciles)
          => /\ result'.success
             /\ \A k \in CallKeys : ~HasDescriptor(tasks', k) ]_vars

(***************************************************************************)
(* C22                                                                     *)
(***************************************************************************)
\* C22: after a successful reconcile every source of the catalog that took
\* the upsert branch is listed under "synced" of its type and not under
\* "removed", and every source that took the delete branch (disabled, or
\* enabled with an empty trimmed cron) is listed under "removed" of its
\* type and not under "synced".
C22_ReportPartitionsSources ==
    (call.op \in Reconciles /\ result.success) =>
        \A k \in CallKeys :
            LET synced  == k[2] \in Members(result.synced[k[1]])
                removed == k[2] \in Members(result.removed[k[1]])
            IN  /\ (Wanted(call.settings, k) /\ ~Rejected(call.settings, k))
                      => (synced /\ ~removed)
                /\ ~Wanted(call.settings, k) => (removed /\ ~synced)

(***************************************************************************)
(* C23                                                                     *)
(***************************************************************************)
\* C23: every descriptor of the plugin in the store is enabled; the one of
\* an EPG source is bound to the refresh-all-EPG task with the arguments
\* "[]", the one of an M3U account to the refresh-single-account task with
\* the arguments "[<id>]", the id being the one in its name.
C23_DescriptorBinding ==
    \A t \in Owned(tasks) :
        /\ t.enabled
        /\ t.name[2] = "epg" =>
             /\ t.task = "apps.epg.tasks.refresh_all_epg_data"
             /\ t.args = <<"[", "]">>
        /\ t.name[2] = "m3u" =>
             /\ t.task = "apps.m3u.tasks.refresh_single_m3u_account"
             /\ t.args = <<"[">> \o str(t.name[3]) \o <<"]">>

\* The store holds a descriptor of an M3U account and one of an EPG source,
\* the second written over an earlier one by the last call.
C23_Witness ==
    /\ \E t \in Owned(tasks) : t.name[2] = "m3u"
    /\ \E t \in Owned(tasks) :
         /\ t.name[2] = "epg"
         /\ <<"epg", t.name[3]>> \in CallKeys
         /\ Wanted(call.settings, <<"epg", t.name[3]>>)
         /\ <<"epg", t.name[3]>> \notin result.created

(***************************************************************************)
(* C24                                                                     *)
(***************************************************************************)
\* the sources that the lines of a view_schedules result list
Listed(r) ==
    {<<"m3u", r.m3u_schedules[i].name>> : i \in 1..Len(r.m3u_schedules)}
      \cup {<<"epg", r.epg_schedules[i].name>> : i \in 1..Len(r.epg_schedules)}

C25_EntryPointsAgree ==
    [][ ( /\ call'.op \in Reconciles \cup {"on_load"}
          /\ call'.failing = {}
          /\ \A k \in KeysOf(call'.m3u, call'.epg) : ~Rejected(call'.settings, k) )
        => LET saved  == save_settings(World, call'.settings, call'.m3u, call'.epg,
                                       call'.utcoffset, {}).S.tasks
               synced == _sync_schedules(World, call'.settings, call'.m3u, call'.epg,
                                         call'.utcoffset, {}).S.tasks
               loaded == _setup_schedules(World, call'.settings, call'.m3u, call'.epg,
                                          call'.utcoffset, {}).S.tasks
           IN  /\ saved = synced /\ synced = loaded
               /\ tasks' = saved
               /\ \A k \in KeysOf(call'.m3u, call'.epg) :
                    ~Wanted(call'.settings, k) => ~HasDescriptor(tasks', k) ]_vars

(***************************************************************************)
(* C26                                                                     *)
(***************************************************************************)
\* the task table that the reconcile handler op leaves when the catalog
\* holds source k alone
TasksAlone(op, S, settings, k, utcoffset) ==
    LET m3u_accounts == IF k[1] = "m3u" THEN <<k[2]>> ELSE <<>>
        epg_sources  == IF k[1] = "epg" THEN <<k[2]>> ELSE <<>>
    IN  IF op = "save_settings"
        THEN save_settings(S, settings, m3u_accounts, epg_sources, utcoffset, {}).S.tasks
        ELSE _sync_schedules(S, settings, m3u_accounts, epg_sources, utcoffset, {}).S.tasks

\* C26: after a reconcile the descriptor of each source of the catalog is
\* the one the same call would leave with that source alone in the catalog:
\* it depends on the source's own flag and cron and on the timezone, not on
\* the other sources, their order or their configuration (an invalid cron
\* of another source included).
C26_NoCrossSourceInterference ==
    [][ (call'.op \in Reconciles /\ call'.failing = {}) =>
          \A k \in KeysOf(call'.m3u, call'.epg) :
              Descriptor(tasks', k) =
                  Descriptor(TasksAlone(call'.op, World, call'.settings, k,
                                        call'.utcoffset), k) ]_vars

Canonical(crontab) ==
    /\ Len(crontab) = 5
    /\ \A i \in 1..5 : ~startswith(crontab[i], <<"0", "/">>)
    /\ _validate_cron(join(crontab))
    /\ isdigit(crontab[1]) => int(crontab[1]) \in 0..59
    /\ isdigit(crontab[2]) => int(crontab[2]) \in 0..23

\* C28: the crontab of every descriptor of the plugin in the store, and
\* every row of the crontab table, is canonical and valid.
C28_StoredCronCanonical ==
    /\ \A t \in Owned(tasks) : Canonical(t.crontab)
    /\ \A c \in crontabs : Canonical(c)

\* The descriptor of a source configured with "0/15 0/6 * * *", stored with
\* minute */15 and hour */6.
C28_Witness ==
    \E k \in SourceKeys :
        /\ Upserted(k)
        /\ CronIn(call.settings, k) = CronZeroSteps
        /\ \E row \in Descriptor(tasks, k) :
             /\ row.crontab[1] = <<"*", "/", "1", "5">>
             /\ row.crontab[2] = <<"*", "/", "6">>

(***************************************************************************)
(* C29                                                                     *)
(***************************************************************************)
\* C29: the day-of-month, month and day-of-week fields stored for an
\* upserted source are the normalised input fields, also when the converted
\* time falls on another day in UTC: "0 22 * * 1" at UTC-5 is stored as
\* "0 3 * * 1".
C29_ConversionKeepsDayFields ==
    \A k \in SourceKeys :
      Upserted(k) =>
        \A row \in Descriptor(tasks, k) :
          LET fields == FieldsIn(call.settings, k)
          IN  /\ row.crontab[3] = fields[3]
              /\ row.crontab[4] = fields[4]
              /\ row.crontab[5] = fields[5]
              /\ (CronIn(call.settings, k) = CronMonday /\ call.utcoffset = -300
                    /\ TimezoneIn(call.settings) = "US/Eastern")
                   => row.crontab = <<<<"0">>, <<"3">>, <<"*">>, <<"*">>, <<"1">>>>

\* "0 22 * * 1" stored for a user in US/Eastern: 03:00 UTC, still Monday.
C29_Witness ==
    /\ TimezoneIn(call.settings) = "US/Eastern" /\ call.utcoffset = -300
    /\ \E k \in SourceKeys :
         /\ Upserted(k)
         /\ CronIn(call.settings, k) = CronMonday
         /\ \E row \in Descriptor(tasks, k) :
              row.crontab[2] = <<"3">> /\ row.crontab[5] = <<"1">>

(***************************************************************************)
(* C30                                                                     *)
(***************************************************************************)
\* the row was written by the instance that is running: the earlier
\* instance wrote for a user in Asia/Kolkata
UpsertedByInstance(t) == t.description.tz # "Asia/Kolkata"

\* C30: for one Plugin instance, whatever calls of on_load, save_settings,
\* sync_schedules, cleanup_all_schedules (and on_unload) it has served:
\* every descriptor in the store that the instance upserted has its task
\* name among the values of scheduled_tasks; every registry entry holds the
\* task name of the source of its key; and after an on_unload during which
\* the store did not raise, the registry is empty and none of the
\* descriptors the instance upserted is left.
C30_RegistryInvariant ==
    /\ \A t \in Owned(tasks) :
         UpsertedByInstance(t) => t.name \in DictValues(scheduled_tasks)
    /\ \A rk \in DOMAIN scheduled_tasks :
         \E k \in SourceKeys :
            /\ rk = (IF k[1] = "m3u" THEN M3uRegKey(k[2]) ELSE EpgRegKey(k[2]))
            /\ scheduled_tasks[rk] = TaskName(k[1], k[2])
    /\ (call.op = "on_unload" /\ call.failing = {}) =>
         /\ scheduled_tasks = EmptyDict
         /\ \A t \in Owned(tasks) : ~UpsertedByInstance(t)

\* After a cleanup_all_schedules over part of the catalog: the registry
\* still names a source whose descriptor is gone, and names the source
\* whose descriptor the instance upserted and the cleanup did not visit.
C30_Witness ==
    /\ call.op = "cleanup_all_schedules"
    /\ \E name \in DictValues(scheduled_tasks) : RowsNamed(tasks, name) = {}
    /\ \E t \in Owned(tasks) :
         UpsertedByInstance(t) /\ t.name \in DictValues(scheduled_tasks)

(***************************************************************************)
(* C31                                                                     *)
(***************************************************************************)
\* C31: over every step the crontab table only grows, and cleanup_all and
\* on_unload leave it as it was; every descriptor of the plugin links a row
\* of the table, the row of its five fields, which it shares with every
\* other descriptor of the same fields; and a call of on_load, of a
\* reconcile or of cleanup_all leaves the descriptor of every source it
\* neither upserted nor deleted, crontab link included, as it was.
C31_CrontabsSharedNeverDeleted ==
    [][ /\ crontabs \subseteq crontabs'
        /\ call'.op \in {"cleanup_all_schedules", "on_unload"} => crontabs' = crontabs
        /\ \A t \in Owned(tasks') : t.crontab \in crontabs'
        /\ crontabs' \ crontabs \subseteq {t.crontab : t \in Owned(tasks') \ tasks}
        /\ call'.op \in Upserts \cup {"cleanup_all_schedules"} =>
             \A k \in SourceKeys :
                 (k \notin result'.deleted
                    /\ ~(k \in KeysOf(call'.m3u, call'.epg)
                           /\ Wanted(call'.settings, k)))
                 => Descriptor(tasks', k) = Descriptor(tasks, k) ]_vars

\* Two sources were scheduled at the same UTC time and shared the one
\* crontab row of the plugin; the last call deleted the descriptor of one,
\* and the other still has its descriptor linked to that row.
C31_Witness ==
    /\ call.op \in Reconciles
    /\ Cardinality(crontabs) = 2
    /\ \E k, j \in SourceKeys :
         /\ k # j
         /\ k \in result.deleted /\ ~HasDescriptor(tasks, k)
         /\ j \notin result.created
         /\ \E t \in Descriptor(tasks, j) : t.crontab \in crontabs

(***************************************************************************)
(* C32                                                                     *)
(***************************************************************************)
\* the sources a disable_refresh_intervals result reports
ReportedDisabled(r) ==
    {<<"m3u", r.updated_m3u[i]>> : i \in 1..Len(r.updated_m3u)}
      \cup {<<"epg", r.updated_epg[i]>> : i \in 1..Len(r.updated_epg)}

\* the source row has a refresh interval and it is not 0
NonZero(v) == v.attr /\ v # Interval(0)

\* C32: a disable_refresh_intervals call leaves the task table, the crontab
\* table and the registry as they were; when it returns success, every
\* source of the catalog that had a non-zero refresh_interval has 0, the
\* sources it reports are exactly the sources whose refresh_interval it
\* changed, and a second call over the same catalog right after it changes
\* and reports none.
C32_DisableRefreshIntervals ==
    [][ call'.op = "disable_refresh_intervals" =>
          /\ tasks' = tasks /\ crontabs' = crontabs
          /\ scheduled_tasks' = scheduled_tasks
          /\ result'.success =>
               LET catalog == KeysOf(call'.m3u, call'.epg)
                   changed == {k \in SourceKeys :
                                 refresh_interval'[k] # refresh_interval[k]}
               IN  /\ \A k \in catalog :
                        NonZero(refresh_interval[k])
                            => refresh_interval'[k] = Interval(0)
                   /\ changed = {k \in catalog : NonZero(refresh_interval[k])}
                   /\ ReportedDisabled(result') = changed
                   /\ Len(result'.updated_m3u) + Len(result'.updated_epg)
                        = Cardinality(changed)
                   /\ ( /\ call.op = "disable_refresh_intervals" /\ result.success
                        /\ call.m3u = call'.m3u /\ call.epg = call'.epg )
                      => (changed = {} /\ ReportedDisabled(result') = {}) ]_vars

\* A call over a catalog of two sources, with descriptors in the store: it
\* set the NULL or non-zero interval of one to 0 and reported it, and left
\* the other, which had 0 already, unreported.
C32_Witness ==
    /\ call.op = "disable_refresh_intervals" /\ result.success
    /\ Owned(tasks) # {}
    /\ \E k, j \in CallKeys :
         /\ k \in ReportedDisabled(result) /\ refresh_interval[k] = Interval(0)
         /\ j \notin ReportedDisabled(result) /\ refresh_interval[j] = Interval(0)

====
